---- MODULE Spec2Model ----
(***************************************************************************)
(* Model of the rsruckig online trajectory generator: the driver           *)
(* Ruckig::update / Ruckig::calculate / Ruckig::reset, the target          *)
(* calculator (per-DoF step 1, synchronize, step 2) and the sampler        *)
(* Trajectory::at_time.                                                    *)
(*                                                                         *)
(* Times and durations are integers (one unit is the resolution of the     *)
(* model); f64::INFINITY is the definition Inf.  A kinematic state         *)
(* (position, velocity, acceleration) is a term: <<"state", n>> is a state *)
(* given by the caller or a target state, <<"int", t, s, j>> is the state  *)
(* util::integrate reaches from s after time t > 0 under the jerk law j.   *)
(* The numeric solvers of step 1 and step 2 are represented by their       *)
(* results: KinTable lists, per kinematic problem (target state and        *)
(* limits of one DoF), the block step 1 finds and whether step 2 finds a   *)
(* profile for a duration.                                                 *)
(***************************************************************************)
EXTENDS Integers, Sequences, FiniteSets, TLC

\* otg      the Ruckig instance
\* input    the InputParameter the caller owns
\* output   the OutputParameter the caller owns
\* result   what the last call returned ("None" before the first call)
\* handler  the error handler the instance is typed with
\* pc       the position of the caller: "free" for a caller that may call
\*          anything, "update" / "pass" inside the control loop, "input" /
\*          "calculated" before and after a calculation that is repeated
VARIABLES otg, input, output, result, handler, pc

vars == <<otg, input, output, result, handler, pc>>

(***************************************************************************)
(* Bounds of the model                                                     *)
(***************************************************************************)
\* largest value of output.time the driver is followed to
MaxTime == 2
\* control cycles the instance may be constructed with are 1..MaxDeltaTime
MaxDeltaTime == 2
\* the offline calculation is checked for 1..MaxCalcDofs DoFs
MaxCalcDofs == 2
\* and for the minimum durations 0..MaxMinimumDuration
MaxMinimumDuration == 6
\* largest value of output.time the control loop is followed to
MaxLoopTime == 10
\* the calculated trajectories are sampled at the times 0..MaxSampleTime
MaxSampleTime == 6

(***************************************************************************)
(* Program constants                                                       *)
(***************************************************************************)
\* f64::INFINITY
Inf == 1000000
\* duration guard of TargetCalculator::calculate (7.6e3)
MaxDuration == 7600

IsInfinite(x) == x >= Inf

None == <<>>
Some(x) == <<x>>
IsSome(o) == Len(o) > 0
IsNone(o) == Len(o) = 0
Unwrap(o) == o[1]
UnwrapOr(o, d) == IF IsSome(o) THEN o[1] ELSE d

(***************************************************************************)
(* Kinematic states                                                        *)
(***************************************************************************)
State(n) == <<"state", n>>
\* the state (0.0, 0.0, 0.0)
ZeroState == State(0)

ZeroJerk == <<"zero">>

(***************************************************************************)
(* Input parameters                                                        *)
(***************************************************************************)
ControlInterfaces == {"Position", "Velocity", "Acceleration"}
Synchronizations == {"Time", "TimeIfNecessary", "Phase", "None"}
DurationDiscretizations == {"Continuous", "Discrete"}

\* The kinematic problems of one DoF (target state and limits), with what
\* the brake calculation and the step-1 and step-2 solvers compute for them:
\*   target           the target state (pf, vf, af) is State(target)
\*   target_velocity, max_velocity   the values InputParameter::validate and
\*                    the TimeIfNecessary test read (min_velocity is unset)
\*   zero             max_acceleration, min_acceleration or max_jerk is 0.0
\*   single_step      step 1 takes its zero-limits special case
\*   ray              direction class of (pd, v0, a0, vf, af): the Phase DoFs
\*                    of an input are collinear when they share a ray
\*                    other than 0 (0: zero everywhere)
\*   brake            t[0] + t[1] of the brake pre-trajectory
\*   found            step 1 finds a profile
\*   t                t_sum[6] of the fastest profile
\*   a, b             blocked intervals (left, right) as t_sum[6] of the two
\*                    profiles that bound them; right = Inf is the interval
\*                    Interval::new(t_min, INFINITY) of the zero-limit cases
\*   step2            step 2 (and the timing check of the phase
\*                    synchronization) finds a profile for every duration that
\*                    is not blocked
\* The target acceleration of every problem is 0.0.
KinTable ==
  << [target |-> 10, target_velocity |-> 0, max_velocity |-> 1, single_step |-> FALSE, zero |-> FALSE,
      ray |-> 1, brake |-> 0, found |-> TRUE, t |-> 3, a |-> None, b |-> None, step2 |-> TRUE],
     [target |-> 11, target_velocity |-> 1, max_velocity |-> 1, single_step |-> FALSE, zero |-> FALSE,
      ray |-> 1, brake |-> 0, found |-> TRUE, t |-> 1, a |-> Some(<<2, 5>>), b |-> None, step2 |-> TRUE],
     [target |-> 12, target_velocity |-> 0, max_velocity |-> 1, single_step |-> FALSE, zero |-> FALSE,
      ray |-> 1, brake |-> 1, found |-> TRUE, t |-> 2, a |-> None, b |-> None, step2 |-> TRUE],
     [target |-> 13, target_velocity |-> 0, max_velocity |-> 1, single_step |-> FALSE, zero |-> FALSE,
      ray |-> 1, brake |-> 0, found |-> FALSE, t |-> 0, a |-> None, b |-> None, step2 |-> TRUE],
     [target |-> 14, target_velocity |-> 0, max_velocity |-> 1, single_step |-> TRUE, zero |-> TRUE,
      ray |-> 1, brake |-> 0, found |-> FALSE, t |-> 0, a |-> None, b |-> None, step2 |-> TRUE],
     [target |-> 15, target_velocity |-> 2, max_velocity |-> 1, single_step |-> FALSE, zero |-> FALSE,
      ray |-> 1, brake |-> 0, found |-> TRUE, t |-> 2, a |-> None, b |-> None, step2 |-> TRUE],
     [target |-> 16, target_velocity |-> 0, max_velocity |-> 1, single_step |-> FALSE, zero |-> FALSE,
      ray |-> 1, brake |-> 0, found |-> TRUE, t |-> 7601, a |-> None, b |-> None, step2 |-> TRUE],
     [target |-> 17, target_velocity |-> 0, max_velocity |-> 1, single_step |-> TRUE, zero |-> TRUE,
      ray |-> 1, brake |-> 0, found |-> TRUE, t |-> 1, a |-> Some(<<1, Inf>>), b |-> None, step2 |-> TRUE],
     [target |-> 18, target_velocity |-> 0, max_velocity |-> 0, single_step |-> TRUE, zero |-> FALSE,
      ray |-> 1, brake |-> 0, found |-> TRUE, t |-> 1, a |-> Some(<<1, Inf>>), b |-> None, step2 |-> TRUE],
     [target |-> 19, target_velocity |-> 1, max_velocity |-> 1, single_step |-> FALSE, zero |-> FALSE,
      ray |-> 1, brake |-> 0, found |-> TRUE, t |-> 1, a |-> Some(<<2, 3>>), b |-> Some(<<4, 6>>), step2 |-> FALSE],
     [target |-> 0, target_velocity |-> 0, max_velocity |-> 1, single_step |-> FALSE, zero |-> FALSE,
      ray |-> 0, brake |-> 0, found |-> TRUE, t |-> 0, a |-> None, b |-> None, step2 |-> TRUE] >>

\* the velocity or the acceleration of a state is not 0.0: the states given
\* by the caller are State(0) (at rest) and the target states; the states
\* inside a profile or a brake move
Moving(s) ==
  \/ s[1] # "state"
  \/ \E i \in 1..Len(KinTable) :
       KinTable[i].target = s[2] /\ KinTable[i].target_velocity # 0

\* util::integrate(t, p0, v0, a0, j): it returns (p0, v0, a0) for t = 0,
\* and also for a state at rest under zero jerk
Integrate(t, s, j) ==
  IF t = 0 \/ (j = ZeroJerk /\ ~Moving(s)) THEN s ELSE <<"int", t, s, j>>

\* InputParameter::new, then the fields the caller sets.  current, kin and
\* enabled are the per-DoF vectors, all of length degrees_of_freedom.
MkInput(n, kins, ci, sync, disc, enabled, mdur) ==
  [ degrees_of_freedom |-> n,
    control_interface |-> ci,
    synchronization |-> sync,
    duration_discretization |-> disc,
    current |-> [d \in 0..(n - 1) |-> ZeroState],
    kin |-> [d \in 0..(n - 1) |-> kins[d + 1]],
    enabled |-> [d \in 0..(n - 1) |-> enabled[d + 1]],
    per_dof_control_interface |-> None,
    per_dof_synchronization |-> None,
    minimum_duration |-> mdur,
    interrupt_calculation_duration |-> None ]

\* InputParameter::eq without the comparison of the targets and limits
InputEq_WithoutTargets(x, y) ==
  /\ DOMAIN x.current = DOMAIN y.current
  /\ x.current = y.current
  /\ DOMAIN x.enabled = DOMAIN y.enabled
  /\ x.enabled = y.enabled
  /\ x.minimum_duration = y.minimum_duration
  /\ x.control_interface = y.control_interface
  /\ x.synchronization = y.synchronization
  /\ x.duration_discretization = y.duration_discretization
  /\ x.per_dof_control_interface = y.per_dof_control_interface
  /\ x.per_dof_synchronization = y.per_dof_synchronization

\* InputParameter::eq: interrupt_calculation_duration and degrees_of_freedom
\* are not compared
InputEq(x, y) ==
  /\ DOMAIN x.current = DOMAIN y.current
  /\ x.current = y.current
  /\ DOMAIN x.kin = DOMAIN y.kin
  /\ x.kin = y.kin
  /\ DOMAIN x.enabled = DOMAIN y.enabled
  /\ x.enabled = y.enabled
  /\ x.minimum_duration = y.minimum_duration
  /\ x.control_interface = y.control_interface
  /\ x.synchronization = y.synchronization
  /\ x.duration_discretization = y.duration_discretization
  /\ x.per_dof_control_interface = y.per_dof_control_interface
  /\ x.per_dof_synchronization = y.per_dof_synchronization

\* the control interface InputParameter::validate resolves for a DoF
ValidateControlInterface(inp, dof) ==
  IF IsSome(inp.per_dof_control_interface)
       /\ dof \in DOMAIN Unwrap(inp.per_dof_control_interface)
  THEN Unwrap(inp.per_dof_control_interface)[dof]
  ELSE inp.control_interface

\* InputParameter::validate for one DoF without the checks of the target
\* velocity against the limits
ValidateDof_WithoutTargetChecks(inp, dof) ==
  LET k == KinTable[inp.kin[dof]]
      v_max == k.max_velocity
      v_min == 0 - v_max
  IN  IF ValidateControlInterface(inp, dof) = "Position"
      THEN ~(v_max < 0) /\ ~(v_min > 0)
      ELSE TRUE

\* InputParameter::validate for one DoF, with check_target_state_within_limits
\* and without check_current_state_within_limits: TRUE when no check fails
ValidateDof(inp, dof) ==
  LET k == KinTable[inp.kin[dof]]
      v_max == k.max_velocity
      v_min == 0 - v_max
      vf == k.target_velocity
  IN  IF ValidateControlInterface(inp, dof) = "Position"
      THEN ~(v_max < 0) /\ ~(v_min > 0) /\ ~(vf > v_max) /\ ~(vf < v_min)
      ELSE TRUE

\* InputParameter::validate: "ok", or "error" when the handler was called
InputValidate(inp) ==
  IF \A dof \in 0..(inp.degrees_of_freedom - 1) : ValidateDof(inp, dof)
  THEN "ok" ELSE "error"

(***************************************************************************)
(* Profile, Block, Trajectory                                              *)
(***************************************************************************)
BrakeJerk == <<"brake">>

\* Profile: p0 is (p[0], v[0], a[0]), target is (pf, vf, af), tsum is
\* t_sum[6], last is (p[7], v[7], a[7]), body names the segment data
\* (t, j and the states between the segments), brake is the brake
\* pre-trajectory: t = t[0] + t[1], duration, start = (p[0], v[0], a[0]) of
\* the brake.  accel is never written by the program (its duration is 0.0).
DefaultProfile ==
  [ p0 |-> ZeroState, target |-> ZeroState, tsum |-> 0, last |-> ZeroState,
    body |-> <<"default">>,
    brake |-> [t |-> 0, duration |-> 0, start |-> ZeroState] ]

\* Interval::new / Interval::from_profiles
Interval(left, right, profile) ==
  [left |-> left, right |-> right, profile |-> profile]

\* Block::default
DefaultBlock ==
  [p_min |-> DefaultProfile, t_min |-> 0, a |-> None, b |-> None]

\* is_blocked without the intervals a and b
IsBlocked_OnlyMinimum(block, t) == t < block.t_min

\* Block::is_blocked
IsBlocked(block, t) ==
  \/ t < block.t_min
  \/ (IsSome(block.a) /\ t > Unwrap(block.a).left /\ t < Unwrap(block.a).right)
  \/ (IsSome(block.b) /\ t > Unwrap(block.b).left /\ t < Unwrap(block.b).right)

\* Trajectory::new
NewTrajectory(dofs) ==
  [ profiles |-> [d \in 0..(dofs - 1) |-> DefaultProfile],
    duration |-> 0,
    cumulative_times |-> [d \in 0..(dofs - 1) |-> 0],
    independent_min_durations |-> [d \in 0..(dofs - 1) |-> 0] ]

\* TargetCalculator::new
NewCalculator(dofs) ==
  [ blocks |-> [d \in 0..(dofs - 1) |-> DefaultBlock],
    idx |-> [i \in 0..(3 * dofs) |-> 0],
    degrees_of_freedom |-> dofs ]

\* OutputParameter::new; new_state is (new_position, new_velocity,
\* new_acceleration)
NewOutput(dofs) ==
  [ degrees_of_freedom |-> dofs,
    trajectory |-> NewTrajectory(dofs),
    new_state |-> [d \in 0..(dofs - 1) |-> ZeroState],
    new_jerk |-> [d \in 0..(dofs - 1) |-> ZeroJerk],
    time |-> 0,
    new_section |-> 0,
    did_section_change |-> FALSE,
    new_calculation |-> FALSE ]

\* Ruckig::new; the kinematic problem 0 is that of InputParameter::new (all
\* zero), which is never calculated
NewRuckig(dofs, delta_time) ==
  [ current_input |-> MkInput(dofs, [d \in 1..dofs |-> 0], "Position", "Time",
                              "Continuous", [d \in 1..dofs |-> TRUE], None),
    current_input_initialized |-> FALSE,
    calculator |-> NewCalculator(dofs),
    degrees_of_freedom |-> dofs,
    delta_time |-> delta_time ]

(***************************************************************************)
(* Error handlers                                                          *)
(***************************************************************************)
Handlers == {"throw", "ignore"}

Ok(r) == <<"Ok", r>>
Err(kind) == <<"Err", kind>>
Panic == <<"Panic">>
IsOk(r) == r[1] = "Ok"

\* RuckigErrorHandler::handle_calculator_error as TargetCalculator::calculate
\* returns it: ThrowErrorHandler gives Err(CalculatorError),
\* IgnoreErrorHandler lets the result code through
HandleCalculatorError(h, code) ==
  IF h = "throw" THEN Err("CalculatorError") ELSE Ok(code)

\* RuckigErrorHandler::handle_validation_error: TRUE when the error is
\* propagated
ValidationErrorPropagates(h) == h = "throw"

(***************************************************************************)
(* TargetCalculator::calculate, the loop over the DoFs (step 1)            *)
(***************************************************************************)
\* inp_per_dof_control_interface[dof] / inp_per_dof_synchronization[dof]
PerDofControlInterface(inp, dof) ==
  IF IsSome(inp.per_dof_control_interface)
       /\ dof \in DOMAIN Unwrap(inp.per_dof_control_interface)
  THEN Unwrap(inp.per_dof_control_interface)[dof]
  ELSE inp.control_interface

PerDofSynchronization(inp, dof) ==
  IF IsSome(inp.per_dof_synchronization)
       /\ dof \in DOMAIN Unwrap(inp.per_dof_synchronization)
  THEN Unwrap(inp.per_dof_synchronization)[dof]
  ELSE inp.synchronization

\* the per-DoF vectors are indexed out of bounds
PerDofOverrideTooLong(inp, dofs) ==
  \/ IsSome(inp.per_dof_control_interface)
       /\ \E d \in DOMAIN Unwrap(inp.per_dof_control_interface) : d >= dofs
  \/ IsSome(inp.per_dof_synchronization)
       /\ \E d \in DOMAIN Unwrap(inp.per_dof_synchronization) : d >= dofs

\* the disabled branch: only the last entries of the profile and the
\* block's t_min, a, b are written
DisabledProfile(p, inp, dof) ==
  [p EXCEPT !.last = inp.current[dof], !.tsum = 0]

DisabledBlock(block) ==
  [block EXCEPT !.t_min = 0, !.a = None, !.b = None]

\* the brake calculation, set_boundary and BrakeProfile::finalize on
\* profiles[0][dof]; the segments (tsum, last, body) keep what the last
\* calculation has left
BoundaryProfile(p, inp, dof) ==
  LET k == KinTable[inp.kin[dof]]
      ci == PerDofControlInterface(inp, dof)
      \* get_*_brake_trajectory resets t; the Acceleration interface has no
      \* brake calculation
      bt == IF ci = "Acceleration" THEN p.brake.t ELSE k.brake
      \* set_boundary / set_boundary_for_velocity
      start == IF ci = "Acceleration" THEN p.p0 ELSE inp.current[dof]
      target == IF ci = "Acceleration" THEN p.target ELSE State(k.target)
  IN  IF bt <= 0
      THEN [p EXCEPT !.p0 = start, !.target = target,
                     !.brake = [p.brake EXCEPT !.t = bt, !.duration = 0]]
      ELSE [p EXCEPT !.p0 = Integrate(bt, start, BrakeJerk), !.target = target,
                     !.brake = [t |-> bt, duration |-> bt, start |-> start]]

\* a profile step 1 or step 2 has computed for the boundary of p: its
\* segments reach the target
SolvedProfile(p, tsum, body) ==
  [p EXCEPT !.tsum = tsum, !.last = p.target, !.body = body]

\* Interval::from_profiles for the interval lr of the table
TableInterval(p, kin, lr, name) ==
  Interval(lr[1] + p.brake.duration,
           IF IsInfinite(lr[2]) THEN Inf ELSE lr[2] + p.brake.duration,
           SolvedProfile(p, lr[2], <<name, kin>>))

\* step 1 with a t_min that leaves out the brake duration
Step1Block_WithoutBrake(block, p, inp, dof) ==
  LET kin == inp.kin[dof]
      k == KinTable[kin]
      p_min == SolvedProfile(p, k.t, <<"pmin", kin>>)
      t_min == k.t
  IN  IF k.single_step
      THEN \* zero-limits special case: a is written only for a moving
           \* start, b is not written
           [block EXCEPT !.p_min = p_min, !.t_min = t_min,
                         !.a = IF IsSome(k.a)
                               THEN Some(Interval(t_min, Inf, DefaultProfile))
                               ELSE @]
      ELSE \* Block::calculate_block
           [p_min |-> p_min, t_min |-> t_min,
            a |-> IF IsSome(k.a)
                  THEN Some(TableInterval(p, kin, Unwrap(k.a), "a")) ELSE None,
            b |-> IF IsSome(k.b)
                  THEN Some(TableInterval(p, kin, Unwrap(k.b), "b")) ELSE None]

\* step1.get_profile(p, &mut blocks[dof]) when it returns true
Step1Block(block, p, inp, dof) ==
  LET kin == inp.kin[dof]
      k == KinTable[kin]
      p_min == SolvedProfile(p, k.t, <<"pmin", kin>>)
      t_min == k.t + p.brake.duration
  IN  IF k.single_step
      THEN \* zero-limits special case: a is written only for a moving
           \* start, b is not written
           [block EXCEPT !.p_min = p_min, !.t_min = t_min,
                         !.a = IF IsSome(k.a)
                               THEN Some(Interval(t_min, Inf, DefaultProfile))
                               ELSE @]
      ELSE \* Block::calculate_block
           [p_min |-> p_min, t_min |-> t_min,
            a |-> IF IsSome(k.a)
                  THEN Some(TableInterval(p, kin, Unwrap(k.a), "a")) ELSE None,
            b |-> IF IsSome(k.b)
                  THEN Some(TableInterval(p, kin, Unwrap(k.b), "b")) ELSE None]

\* step1.get_profile when it returns false: the zero-limits special case has
\* set the boundary of block.p_min (set_boundary_from_profile)
Step1FailedBlock(block, p, inp, dof) ==
  IF KinTable[inp.kin[dof]].single_step
  THEN [block EXCEPT !.p_min = [@ EXCEPT !.p0 = p.p0, !.target = p.target,
                                         !.brake = p.brake]]
  ELSE block

\* found_profile
Step1Found(inp, dof) ==
  /\ PerDofControlInterface(inp, dof) # "Acceleration"
  /\ KinTable[inp.kin[dof]].found

\* has_zero_limits of one DoF
HasZeroLimits(inp, dof) == KinTable[inp.kin[dof]].zero

\* the loop over the DoFs of TargetCalculator::calculate.  res is None when
\* the loop has completed and the result calculate returns otherwise.
RECURSIVE DofLoop(_, _, _, _, _)
DofLoop(calc, traj, inp, h, dof) ==
  IF dof >= calc.degrees_of_freedom
  THEN [calc |-> calc, traj |-> traj, res |-> None]
  ELSE IF \/ dof \notin DOMAIN traj.profiles
          \/ dof \notin DOMAIN inp.kin
          \/ PerDofOverrideTooLong(inp, calc.degrees_of_freedom)
  THEN \* index out of bounds
       [calc |-> calc, traj |-> traj, res |-> Some(Panic)]
  ELSE IF ~inp.enabled[dof]
  THEN DofLoop([calc EXCEPT !.blocks[dof] = DisabledBlock(@)],
               [traj EXCEPT !.profiles[dof] = DisabledProfile(@, inp, dof)],
               inp, h, dof + 1)
  ELSE LET p == BoundaryProfile(traj.profiles[dof], inp, dof)
           block == Step1Block(calc.blocks[dof], p, inp, dof)
       IN  IF Step1Found(inp, dof)
           THEN DofLoop([calc EXCEPT !.blocks[dof] = block],
                        [traj EXCEPT !.profiles[dof] = p,
                                     !.independent_min_durations[dof] =
                                        block.t_min],
                        inp, h, dof + 1)
           ELSE [calc |-> [calc EXCEPT !.blocks[dof] =
                             Step1FailedBlock(@, p, inp, dof)],
                 traj |-> [traj EXCEPT !.profiles[dof] = p],
                 res |-> Some(HandleCalculatorError(h,
                           IF HasZeroLimits(inp, dof)
                           THEN "ErrorZeroLimits"
                           ELSE "ErrorExecutionTimeCalculation"))]

(***************************************************************************)
(* TargetCalculator::synchronize                                           *)
(***************************************************************************)
\* possible_t_syncs before the discretization
PossibleTSyncs(calc, inp) ==
  LET D == calc.degrees_of_freedom
  IN  [i \in 0..(3 * D) |->
        IF i = 3 * D THEN UnwrapOr(inp.minimum_duration, Inf)
        ELSE LET dof == i % D
                 block == calc.blocks[dof]
             IN  IF PerDofSynchronization(inp, dof) = "None"
                 THEN (IF i \div D = 0 THEN 0 ELSE Inf)
                 ELSE CASE i \div D = 0 -> block.t_min
                        [] i \div D = 1 ->
                             IF IsSome(block.a) THEN Unwrap(block.a).right
                             ELSE Inf
                        [] OTHER ->
                             IF IsSome(block.b) THEN Unwrap(block.b).right
                             ELSE Inf]

\* a candidate rounded up to a multiple of delta_time
Discretize(t, delta_time) ==
  IF IsInfinite(t) THEN t
  ELSE LET remainder == t % delta_time
       IN  IF remainder > 0 THEN t + (delta_time - remainder) ELSE t

AnyInterval(calc, inp) ==
  \/ \E dof \in 0..(calc.degrees_of_freedom - 1) :
       /\ PerDofSynchronization(inp, dof) # "None"
       /\ (IsSome(calc.blocks[dof].a) \/ IsSome(calc.blocks[dof].b))
  \/ IsSome(inp.minimum_duration)

\* insertion of i into the sorted sequence s behind every entry that is not
\* larger: the stable order of sort_by
InsertSorted(s, i, key) ==
  LET n == Cardinality({k \in 1..Len(s) : key[s[k]] <= key[i]})
  IN  SubSeq(s, 1, n) \o <<i>> \o SubSeq(s, n + 1, Len(s))

RECURSIVE SortedIota(_, _)
\* 0, 1, .., n-1 sorted by key
SortedIota(n, key) ==
  IF n = 0 THEN <<>> ELSE InsertSorted(SortedIota(n - 1, key), n - 1, key)

\* idx after the iota and the sort of idx[0..idx_end]
SortedIdx(idx, idx_end, key) ==
  LET s == SortedIota(idx_end, key)
  IN  [i \in DOMAIN idx |-> IF i < idx_end THEN s[i + 1] ELSE idx[i]]

\* the test of a candidate without the comparison with minimum_duration
CandidateRejected_WithoutMinimum(calc, inp, t) ==
  \/ \E dof \in 0..(calc.degrees_of_freedom - 1) :
       /\ PerDofSynchronization(inp, dof) # "None"
       /\ IsBlocked(calc.blocks[dof], t)
  \/ IsInfinite(t)

\* the test of one candidate in the loop of synchronize
CandidateRejected(calc, inp, t) ==
  \/ \E dof \in 0..(calc.degrees_of_freedom - 1) :
       /\ PerDofSynchronization(inp, dof) # "None"
       /\ IsBlocked(calc.blocks[dof], t)
  \/ t < UnwrapOr(inp.minimum_duration, 0)
  \/ IsInfinite(t)

RECURSIVE FirstCandidate(_, _, _, _, _)
\* the first position of idx, from pos on, whose candidate is accepted;
\* None when there is none
FirstCandidate(calc, inp, idx, ts, pos) ==
  IF pos > 3 * calc.degrees_of_freedom THEN None
  ELSE IF CandidateRejected(calc, inp, ts[idx[pos]])
       THEN FirstCandidate(calc, inp, idx, ts, pos + 1)
       ELSE Some(idx[pos])

\* the profile synchronize copies for the accepted candidate i
CandidateProfile(calc, i) ==
  LET D == calc.degrees_of_freedom
      block == calc.blocks[i % D]
  IN  CASE i \div D = 0 -> block.p_min
        [] i \div D = 1 -> Unwrap(block.a).profile
        [] OTHER -> Unwrap(block.b).profile

\* synchronize(inp.minimum_duration, &mut traj.duration, &mut limiting_dof,
\* &mut traj.profiles[0], discrete_duration, delta_time)
Synchronize(calc, traj, inp, delta_time) ==
  LET D == calc.degrees_of_freedom
      raw == PossibleTSyncs(calc, inp)
      ts == IF inp.duration_discretization = "Discrete"
            THEN [i \in DOMAIN raw |-> Discretize(raw[i], delta_time)]
            ELSE raw
      idx_end == IF AnyInterval(calc, inp) THEN 3 * D + 1 ELSE D
      idx == SortedIdx(calc.idx, idx_end, ts)
      c == FirstCandidate(calc, inp, idx, ts, D - 1)
      calc1 == [calc EXCEPT !.idx = idx]
  IN  IF IsNone(c)
      THEN [found |-> FALSE, calc |-> calc1, traj |-> traj,
            limiting_dof |-> None]
      ELSE LET i == Unwrap(c)
           IN  IF i = 3 * D
               THEN [found |-> TRUE, calc |-> calc1,
                     traj |-> [traj EXCEPT !.duration = ts[i]],
                     limiting_dof |-> None]
               ELSE [found |-> TRUE, calc |-> calc1,
                     traj |-> [traj EXCEPT !.duration = ts[i],
                                 !.profiles[i % D] = CandidateProfile(calc, i)],
                     limiting_dof |-> Some(i % D)]

(***************************************************************************)
(* TargetCalculator::calculate after the loop over the DoFs                *)
(***************************************************************************)
DofsOf(calc) == 0..(calc.degrees_of_freedom - 1)

\* has_zero_limits of the synchronization error
AnyZeroLimits(calc, inp) == \E dof \in DofsOf(calc) : HasZeroLimits(inp, dof)

\* calculate without the loop "None Synchronization"
NoneLoop_Skipped(calc, traj, inp, limiting_dof, dof) == <<traj, limiting_dof>>

RECURSIVE NoneLoop(_, _, _, _, _)
\* the loop "None Synchronization": <<traj, limiting_dof>>
NoneLoop(calc, traj, inp, limiting_dof, dof) ==
  IF dof >= calc.degrees_of_freedom THEN <<traj, limiting_dof>>
  ELSE IF inp.enabled[dof] /\ PerDofSynchronization(inp, dof) = "None"
  THEN LET block == calc.blocks[dof]
           t1 == [traj EXCEPT !.profiles[dof] = block.p_min]
       IN  IF block.t_min > traj.duration
           THEN NoneLoop(calc, [t1 EXCEPT !.duration = block.t_min], inp,
                         Some(dof), dof + 1)
           ELSE NoneLoop(calc, t1, inp, limiting_dof, dof + 1)
  ELSE NoneLoop(calc, traj, inp, limiting_dof, dof + 1)

\* is_input_collinear: the Phase DoFs that are not zero everywhere share one
\* direction
IsInputCollinear(calc, inp) ==
  LET rays == {KinTable[inp.kin[dof]].ray :
                 dof \in {d \in DofsOf(calc) :
                            PerDofSynchronization(inp, d) = "Phase"}}
  IN  Cardinality(rays \ {0}) = 1

\* a duration of the segments that step 2 can realise for a DoF
DurationFeasible(inp, dof, t_profile) ==
  LET k == KinTable[inp.kin[dof]]
      Inside(o) == IsSome(o) /\ t_profile > Unwrap(o)[1]
                             /\ t_profile < Unwrap(o)[2]
  IN  k.step2 /\ t_profile >= k.t /\ ~Inside(k.a) /\ ~Inside(k.b)

\* the DoFs the phase synchronization retimes
PhaseDofs(calc, inp, limiting) ==
  {dof \in DofsOf(calc) : /\ inp.enabled[dof]
                          /\ dof # limiting
                          /\ PerDofSynchronization(inp, dof) = "Phase"}

\* check_*_with_timing of the phase synchronization for one DoF
PhaseCheck(traj, inp, dof) ==
  \/ PerDofControlInterface(inp, dof) = "Acceleration"
  \/ DurationFeasible(inp, dof,
                      traj.duration - traj.profiles[dof].brake.duration)

\* the phase synchronization without the copy of the timing
PhaseProfile_Unchanged(traj, inp, dof, p_limiting) == traj.profiles[dof]

\* the profile of a DoF after the timing of the limiting DoF was copied
PhaseProfile(traj, inp, dof, p_limiting) ==
  LET p == traj.profiles[dof]
  IN  IF PhaseCheck(traj, inp, dof)
      THEN SolvedProfile(p, p_limiting.tsum, <<"phase", p_limiting.body>>)
      ELSE [p EXCEPT !.body = <<"phase", p_limiting.body>>]

\* a step 2 that returns a profile for every duration
Step2Found_Always(inp, dof, t_profile) ==
  PerDofControlInterface(inp, dof) # "Acceleration"

\* step2.get_profile(p): the Acceleration interface has no step 2
Step2Found(inp, dof, t_profile) ==
  /\ PerDofControlInterface(inp, dof) # "Acceleration"
  /\ DurationFeasible(inp, dof, t_profile)

\* a time synchronization that fits every DoF to the duration
KeepsMinimumProfile_Never(inp, dof) == FALSE

\* the test for a TimeIfNecessary DoF whose target velocity and
\* acceleration are zero
KeepsMinimumProfile(inp, dof) ==
  /\ PerDofSynchronization(inp, dof) = "TimeIfNecessary"
  /\ KinTable[inp.kin[dof]].target_velocity = 0

RECURSIVE TimeLoop(_, _, _, _, _, _)
\* the loop "Time Synchronization"
TimeLoop(calc, traj, inp, h, limiting_dof, dof) ==
  IF dof >= calc.degrees_of_freedom
  THEN [calc |-> calc, traj |-> traj, res |-> Ok("Working")]
  ELSE
    LET sync == PerDofSynchronization(inp, dof)
        discrete_duration == inp.duration_discretization = "Discrete"
        skip_synchronization ==
          (Some(dof) = limiting_dof \/ sync = "None") /\ ~discrete_duration
        p == traj.profiles[dof]
        block == calc.blocks[dof]
        t_profile == traj.duration - p.brake.duration
        k == KinTable[inp.kin[dof]]
        Continue(q) == TimeLoop(calc, [traj EXCEPT !.profiles[dof] = q], inp, h,
                             limiting_dof, dof + 1)
        Step2 ==
          IF Step2Found(inp, dof, t_profile)
          THEN Continue(SolvedProfile(p, t_profile,
                                   <<"step2", inp.kin[dof], t_profile>>))
          ELSE [calc |-> calc, traj |-> traj,
                res |-> HandleCalculatorError(h,
                          "ErrorExecutionTimeCalculation")]
    IN  IF ~inp.enabled[dof] \/ skip_synchronization
        THEN TimeLoop(calc, traj, inp, h, limiting_dof, dof + 1)
        ELSE IF KeepsMinimumProfile(inp, dof)
        THEN Continue(block.p_min)
        ELSE IF t_profile = block.t_min
        THEN Continue(block.p_min)
        ELSE IF IsSome(block.a)
        THEN (IF t_profile = Unwrap(block.a).right
              THEN Continue(Unwrap(block.a).profile)
              ELSE Step2)
        ELSE IF IsSome(block.b)
        THEN (IF t_profile = Unwrap(block.b).right
              THEN Continue(Unwrap(block.b).profile)
              ELSE Step2)
        ELSE Step2

\* the phase synchronization: <<returned, traj>>; returned is TRUE when
\* calculate returns Working from it
PhaseSynchronization(calc, traj, inp, limiting_dof) ==
  IF /\ IsSome(limiting_dof)
     /\ \E d \in DofsOf(calc) : PerDofSynchronization(inp, d) = "Phase"
     /\ IsInputCollinear(calc, inp)
  THEN LET p_limiting == traj.profiles[Unwrap(limiting_dof)]
           dofs == PhaseDofs(calc, inp, Unwrap(limiting_dof))
           t1 == [traj EXCEPT !.profiles =
                    [d \in DOMAIN traj.profiles |->
                       IF d \in dofs
                       THEN PhaseProfile(traj, inp, d, p_limiting)
                       ELSE traj.profiles[d]]]
           found_time_synchronization ==
             \A d \in dofs : PhaseCheck(traj, inp, d)
       IN  <<found_time_synchronization
               /\ \A d \in DofsOf(calc) :
                    PerDofSynchronization(inp, d) \in {"Phase", "None"},
             t1>>
  ELSE <<FALSE, traj>>

\* calculate after the phase synchronization ph of the trajectory t1
AfterPhase(calc, inp, h, limiting_dof, t1, ph) ==
  IF t1.duration > MaxDuration
  THEN [calc |-> calc, traj |-> t1, res |-> Ok("ErrorTrajectoryDuration")]
  ELSE IF t1.duration = 0
  THEN [calc |-> calc,
        traj |-> [t1 EXCEPT !.profiles =
                    [d \in DOMAIN t1.profiles |->
                       IF d \in DofsOf(calc) THEN calc.blocks[d].p_min
                       ELSE t1.profiles[d]]],
        res |-> Ok("Working")]
  ELSE IF /\ inp.duration_discretization # "Discrete"
          /\ \A d \in DofsOf(calc) : PerDofSynchronization(inp, d) = "None"
  THEN [calc |-> calc, traj |-> t1, res |-> Ok("Working")]
  ELSE IF ph[1]
  THEN [calc |-> calc, traj |-> ph[2], res |-> Ok("Working")]
  ELSE TimeLoop(calc, ph[2], inp, h, limiting_dof, 0)

\* calculate after the loop "None Synchronization" has left
\* n = <<traj, limiting_dof>>: cumulative_times, then the phase
\* synchronization
AfterNoneLoop(calc, inp, h, limiting_dof, t1) ==
  AfterPhase(calc, inp, h, limiting_dof, t1,
             PhaseSynchronization(calc, t1, inp, limiting_dof))

\* calculate after synchronize has succeeded: the loop "None
\* Synchronization" and what follows it
AfterSynchronized(calc, inp, h, n) ==
  AfterNoneLoop(calc, inp, h, n[2],
                [n[1] EXCEPT !.cumulative_times[0] = n[1].duration])

\* calculate without the test of what synchronize has returned
AfterSynchronize_IgnoresFailure(calc, inp, h, s) ==
  AfterSynchronized(s.calc, inp, h,
                    NoneLoop(s.calc, s.traj, inp, s.limiting_dof, 0))

\* calculate after synchronize has returned s
AfterSynchronize(calc, inp, h, s) ==
  IF ~s.found
  THEN [calc |-> s.calc, traj |-> s.traj,
        res |-> HandleCalculatorError(h,
                  IF AnyZeroLimits(calc, inp) THEN "ErrorZeroLimits"
                  ELSE "ErrorSynchronizationCalculation")]
  ELSE AfterSynchronized(s.calc, inp, h,
                         NoneLoop(s.calc, s.traj, inp, s.limiting_dof, 0))

\* calculate from the call of synchronize on
AfterStep1(calc, traj, inp, h, delta_time) ==
  AfterSynchronize(calc, inp, h, Synchronize(calc, traj, inp, delta_time))

\* calculate after the loop over the DoFs has left l
AfterDofLoop(calc, inp, h, delta_time, l) ==
  IF IsSome(l.res)
  THEN [calc |-> l.calc, traj |-> l.traj, res |-> Unwrap(l.res)]
  ELSE IF /\ calc.degrees_of_freedom = 1
          /\ IsNone(inp.minimum_duration)
          /\ inp.duration_discretization # "Discrete"
  THEN [calc |-> l.calc,
        traj |-> [l.traj EXCEPT !.duration = l.calc.blocks[0].t_min,
                    !.profiles[0] = l.calc.blocks[0].p_min,
                    !.cumulative_times[0] = l.calc.blocks[0].t_min],
        res |-> Ok("Working")]
  ELSE IF calc.degrees_of_freedom = 0
  THEN \* idx[(degrees_of_freedom - 1)..] underflows
       [calc |-> l.calc, traj |-> l.traj, res |-> Panic]
  ELSE AfterStep1(l.calc, l.traj, inp, h, delta_time)

\* TargetCalculator::calculate(inp, traj, delta_time): the calculator and the
\* trajectory as the call leaves them, and what it returns
CalculatorCalculate(calc, traj, inp, h, delta_time) ==
  AfterDofLoop(calc, inp, h, delta_time, DofLoop(calc, traj, inp, h, 0))

(***************************************************************************)
(* Trajectory::at_time                                                     *)
(***************************************************************************)
\* the state and the jerk inside the segments of profile p, t after their
\* start (0 <= t < tsum)
SegmentState(p, t) == IF t = 0 THEN p.p0 ELSE <<"at", t, p.p0, p.body>>
SegmentJerk(p, t) == <<"jerk", p.body, t>>

\* the number of sections of a trajectory: profiles holds one vector of
\* profiles
Sections == 1

\* the section search answering the number of entries
SectionOf_Count(traj, time) == Cardinality(DOMAIN traj.cumulative_times)

\* the section state_to_integrate_from finds for a time before the
\* duration: the first index of cumulative_times with a larger entry, or
\* their number
SectionOf(traj, time) ==
  LET later == {i \in DOMAIN traj.cumulative_times :
                  traj.cumulative_times[i] > time}
  IN  IF later = {} THEN Cardinality(DOMAIN traj.cumulative_times)
      ELSE CHOOSE i \in later : \A j \in later : i <= j

\* what set_integrate receives for one DoF and util::integrate makes of it:
\* <<new state, new jerk>>
SampleDof(traj, time, dof) ==
  LET p == traj.profiles[dof]
  IN  IF time >= traj.duration
      THEN <<Integrate(time - (p.brake.duration + p.tsum), p.last, ZeroJerk),
             ZeroJerk>>
      ELSE IF p.brake.duration > 0 /\ time < p.brake.duration
      THEN <<Integrate(time, p.brake.start, BrakeJerk), BrakeJerk>>
      ELSE LET t == time - p.brake.duration
           IN  IF t >= p.tsum
               THEN <<Integrate(t - p.tsum, p.last, ZeroJerk), ZeroJerk>>
               ELSE <<SegmentState(p, t), SegmentJerk(p, t)>>

\* at_time(time, new_position, new_velocity, new_acceleration, new_jerk, _):
\* panic is TRUE when profiles[new_section] is out of bounds
AtTime(traj, time) ==
  [ panic |-> /\ time < traj.duration
              /\ SectionOf(traj, time) > 0
              /\ DOMAIN traj.profiles # {},
    new_section |-> IF time >= traj.duration THEN Sections
                    ELSE SectionOf(traj, time),
    new_state |-> [d \in DOMAIN traj.profiles |-> SampleDof(traj, time, d)[1]],
    new_jerk |-> [d \in DOMAIN traj.profiles |-> SampleDof(traj, time, d)[2]] ]

(***************************************************************************)
(* Ruckig                                                                  *)
(***************************************************************************)
\* Ruckig::validate_input(input, false, true): TRUE when it returns Err
ValidateInputFails(o, inp, h) ==
  /\ ValidationErrorPropagates(h)
  /\ \/ InputValidate(inp) = "error"
     \/ o.delta_time <= 0 /\ inp.duration_discretization # "Continuous"

\* Ruckig::calculate(input, traj)
RuckigCalculate(o, inp, traj, h) ==
  IF ValidateInputFails(o, inp, h)
  THEN [calc |-> o.calculator, traj |-> traj, res |-> Err("ValidationError")]
  ELSE CalculatorCalculate(o.calculator, traj, inp, h, o.delta_time)

\* the test without the flag that reset() clears
NeedsCalculation_InputOnly(o, inp) == ~InputEq(inp, o.current_input)

\* the test of Ruckig::update for a new calculation
NeedsCalculation(o, inp) ==
  ~o.current_input_initialized \/ ~InputEq(inp, o.current_input)

\* the mismatch test at the start of Ruckig::update
DofMismatch(o, inp, out) ==
  /\ o.degrees_of_freedom = 0
  /\ \/ o.degrees_of_freedom # inp.degrees_of_freedom
     \/ o.degrees_of_freedom # out.degrees_of_freedom

\* OutputParameter::pass_to_input
PassToInputOp(out, inp) == [inp EXCEPT !.current = out.new_state]

\* the result with Finished already at the end of the trajectory
UpdateResult_AtDuration(time, duration) ==
  IF time >= duration THEN "Finished" ELSE "Working"

\* the result with the two cases exchanged
UpdateResult_Exchanged(time, duration) ==
  IF time > duration THEN "Working" ELSE "Finished"

\* the result of an update that has sampled
UpdateResult(time, duration) ==
  IF time > duration THEN "Finished" ELSE "Working"

\* update without the copy of the sample into the stored input
StoreSample_Skipped(o, out) == o

\* output.pass_to_input(&mut self.current_input) at the end of update
StoreSample(o, out) == [o EXCEPT !.current_input = PassToInputOp(out, @)]

\* the output with the sample s of time written to it; at_time writes the
\* section to a temporary, so new_section keeps its value
SampledOutput(out, time, s) ==
  [out EXCEPT !.time = time,
              !.new_state = s.new_state,
              !.new_jerk = s.new_jerk,
              !.did_section_change = out.new_section > out.new_section]

\* the end of Ruckig::update after at_time has returned s
Sampled(o, out, time, s) ==
  IF s.panic
  THEN [otg |-> o, output |-> [out EXCEPT !.time = time], result |-> "Panic"]
  ELSE [otg |-> StoreSample(o, SampledOutput(out, time, s)),
        output |-> SampledOutput(out, time, s),
        result |-> UpdateResult(time, out.trajectory.duration)]

\* Ruckig::update from "let old_section" on, for the instance o and the
\* output out the calculation has left
UpdateSample(o, out) ==
  Sampled(o, out, out.time + o.delta_time,
          AtTime(out.trajectory, out.time + o.delta_time))

\* Ruckig::update after self.calculate has returned c
Calculated(o, inp, out, c) ==
  IF IsOk(c.res)
  THEN UpdateSample([o EXCEPT !.calculator = c.calc,
                              !.current_input = inp,
                              !.current_input_initialized = TRUE],
                    [out EXCEPT !.trajectory = c.traj,
                                !.new_calculation = TRUE])
  ELSE [otg |-> [o EXCEPT !.calculator = c.calc],
        output |-> [out EXCEPT !.trajectory = c.traj],
        result |-> IF c.res = Panic THEN "Panic" ELSE c.res[2]]

\* Ruckig::update(input, output): the instance and the output as the call
\* leaves them, and what it returns
UpdateOp(o, inp, out, h) ==
  IF DofMismatch(o, inp, out)
  THEN [otg |-> o, output |-> out,
        result |-> IF h = "throw" THEN "CalculatorError" ELSE "Error"]
  ELSE IF NeedsCalculation(o, inp)
  THEN Calculated(o, inp, [out EXCEPT !.new_calculation = FALSE],
                  RuckigCalculate(o, inp, out.trajectory, h))
  ELSE UpdateSample(o, [out EXCEPT !.new_calculation = FALSE])

(***************************************************************************)
(* The caller                                                              *)
(***************************************************************************)
\* the inputs the caller chooses from: <<DoFs, kinematic problems, control
\* interface, synchronization, discretization, enabled, minimum_duration>>
BaseInputs ==
  { <<1, <<1>>, "Position", "Time", "Continuous", <<TRUE>>, None>>,
    <<1, <<2>>, "Position", "Time", "Continuous", <<TRUE>>, None>>,
    <<1, <<4>>, "Position", "Time", "Continuous", <<TRUE>>, None>>,
    <<1, <<6>>, "Position", "Time", "Continuous", <<TRUE>>, None>>,
    <<1, <<11>>, "Position", "Time", "Continuous", <<TRUE>>, None>>,
    <<2, <<1, 2>>, "Position", "Time", "Continuous", <<TRUE, TRUE>>, None>>,
    <<2, <<1, 4>>, "Position", "Time", "Continuous", <<TRUE, TRUE>>, None>>,
    <<2, <<1, 6>>, "Position", "Time", "Continuous", <<TRUE, TRUE>>, None>>,
    <<2, <<1, 7>>, "Position", "Time", "Continuous", <<TRUE, TRUE>>, None>>,
    <<2, <<1, 9>>, "Position", "Time", "Continuous", <<TRUE, TRUE>>, None>>,
    <<2, <<1, 10>>, "Position", "Time", "Continuous", <<TRUE, TRUE>>, Some(7)>>,
    <<0, <<>>, "Position", "Time", "Continuous", <<>>, None>> }

InputOf(b) == MkInput(b[1], b[2], b[3], b[4], b[5], b[6], b[7])

\* <<DoFs of the instance, DoFs of the input, DoFs of the output>>
DofConfigs ==
  {<<1, 1, 1>>, <<2, 2, 2>>, <<0, 0, 0>>, <<0, 1, 1>>, <<1, 2, 2>>, <<2, 1, 1>>}

Init ==
  /\ handler \in Handlers
  /\ \E c \in DofConfigs, dt \in 1..MaxDeltaTime :
       /\ otg = NewRuckig(c[1], dt)
       /\ output = NewOutput(c[3])
       /\ \E b \in BaseInputs : b[1] = c[2] /\ input = InputOf(b)
  /\ result = "None"
  /\ pc = "free"

\* a panic ends the program
Running == result # "Panic"

\* otg.update(&input, &mut output)
Update ==
  /\ Running
  /\ output.time + otg.delta_time <= MaxTime
  /\ \E r \in {UpdateOp(otg, input, output, handler)} :
       /\ otg' = r.otg
       /\ output' = r.output
       /\ result' = r.result
  /\ UNCHANGED <<input, handler, pc>>

\* output.pass_to_input(&mut input)
PassToInput ==
  /\ Running
  /\ input' = PassToInputOp(output, input)
  /\ input' # input
  /\ UNCHANGED <<otg, output, result, handler, pc>>

\* otg.reset()
Reset ==
  /\ Running
  /\ otg.current_input_initialized
  /\ otg' = [otg EXCEPT !.current_input_initialized = FALSE]
  /\ UNCHANGED <<input, output, result, handler, pc>>

\* the caller sets new targets, limits and options; the current state and
\* the size of the input stay
ChangeInput ==
  /\ Running
  /\ \E b \in BaseInputs :
       /\ b[1] = input.degrees_of_freedom
       /\ input' = [InputOf(b) EXCEPT !.current = input.current]
       /\ input' # input
  /\ UNCHANGED <<otg, output, result, handler, pc>>

Next == Update \/ PassToInput \/ Reset \/ ChangeInput

Spec == Init /\ [][Next]_vars

(***************************************************************************)
(* Properties of Ruckig::update                                            *)
(***************************************************************************)
\* the results of an update that has sampled the trajectory
Success == {"Working", "Finished"}

\* the fields of an input that make it a different input
ComparedFields ==
  {"current", "kin", "enabled", "minimum_duration", "control_interface",
   "synchronization", "duration_discretization", "per_dof_control_interface",
   "per_dof_synchronization"}

InputDiffers(x, y) == \E f \in ComparedFields : x[f] # y[f]

C3_FinishedIffTimeBeyondDuration ==
  [][Update /\ result' \in Success =>
       /\ output'.time = output.time + otg.delta_time
       /\ result' = "Finished" <=>
            output'.time > output'.trajectory.duration]_vars

\* C3 witness: the first update of a trajectory of duration 0 has returned
\* Finished
C3_Witness_ZeroDuration ==
  /\ result = "Finished"
  /\ output.trajectory.duration = 0
  /\ output.time = otg.delta_time
  /\ output.new_calculation

\* C5: when the last update has succeeded and the input is the stored input
\* with the sampled state as its current state, an update does not
\* recalculate: new_calculation is false, the trajectory is unchanged and
\* the sample is that of the same trajectory at the time advanced by
\* delta_time.
C5_FeedbackKeepsTrajectory ==
  [][( /\ Update
       /\ result \in Success
       /\ otg.current_input_initialized
       /\ input = [otg.current_input EXCEPT !.current = output.new_state] )
     => /\ result' \in Success
        /\ ~output'.new_calculation
        /\ output'.trajectory = output.trajectory
        /\ output'.time = output.time + otg.delta_time
        /\ output'.new_state =
             AtTime(output.trajectory, output.time + otg.delta_time).new_state
        /\ output'.new_jerk =
             AtTime(output.trajectory, output.time + otg.delta_time).new_jerk
    ]_vars

\* C5 witness: an update after the feedback of the state has sampled the
\* kept trajectory
C5_Witness_Continued ==
  /\ result \in Success
  /\ ~output.new_calculation
  /\ output.time = 2 * otg.delta_time
  /\ output.new_state # [d \in DOMAIN output.new_state |-> ZeroState]

\* C2: an update that has recomputed the trajectory ends with
\* output.time = delta_time and has sampled the new trajectory at
\* delta_time, however many updates the output has seen before.
C2_RecalculationRestartsTime ==
  [][Update /\ result' \in Success /\ output'.new_calculation =>
       /\ output'.time = otg.delta_time
       /\ output'.new_state =
            AtTime(output'.trajectory, otg.delta_time).new_state]_vars

\* every profile of the trajectory was solved: its segments end in its
\* target
TrajectoryComplete(traj) ==
  \A d \in DOMAIN traj.profiles :
    /\ traj.profiles[d].body # DefaultProfile.body
    /\ traj.profiles[d].last = traj.profiles[d].target

\* the error codes of the calculator
CalculatorErrors ==
  {"ErrorZeroLimits", "ErrorExecutionTimeCalculation",
   "ErrorSynchronizationCalculation"}

\* an update of this state recalculates and the calculator fails in step 1,
\* in the synchronization or in step 2
CalculatorFails ==
  /\ ~DofMismatch(otg, input, output)
  /\ NeedsCalculation(otg, input)
  /\ ~ValidateInputFails(otg, input, handler)
  /\ LET c == CalculatorCalculate(otg.calculator, output.trajectory, input,
                                  "ignore", otg.delta_time)
     IN  IsOk(c.res) /\ c.res[2] \in CalculatorErrors

\* C6: when the output holds a complete trajectory and the recalculation of
\* an update fails in the calculator, then, with either error handler, the
\* output holds the same trajectory after the call, and a sample the call
\* takes is a sample of that trajectory.
C6_FailedRecalculationKeepsTrajectory ==
  [][Update /\ TrajectoryComplete(output.trajectory) /\ CalculatorFails =>
       /\ output'.trajectory = output.trajectory
       /\ result' \in Success =>
            output'.new_state =
              AtTime(output.trajectory, output'.time).new_state]_vars

\* an input whose target velocity exceeds the velocity limit of a DoF
TargetVelocityExceedsLimit(inp) ==
  \E d \in DOMAIN inp.kin :
    /\ ValidateControlInterface(inp, d) = "Position"
    /\ KinTable[inp.kin[d]].target_velocity > KinTable[inp.kin[d]].max_velocity

\* C7 (as stated): the update that follows a validation error and is given a
\* valid input performs a new calculation.
C7_ValidInputAfterErrorRecalculates ==
  [][( /\ Update
       /\ handler = "throw"
       /\ result = "ValidationError"
       /\ ~TargetVelocityExceedsLimit(input)
       /\ result' \in Success )
     => output'.new_calculation]_vars

\* C7 (amended): with the propagating handler an update of an instance with
\* at least one DoF and an input that fails validation returns the error and
\* leaves output.time, the sampled state, the trajectory, the calculator and
\* the stored input as they were, with new_calculation false; the update
\* that follows with a valid input performs a new calculation when no input
\* is stored or the input differs from the stored one, and none when it
\* equals the stored input.
C7_ValidationErrorLeavesState ==
  [][Update /\ handler = "throw" /\ otg.degrees_of_freedom > 0 =>
       /\ TargetVelocityExceedsLimit(input)
          => /\ result' = "ValidationError"
             /\ output' = [output EXCEPT !.new_calculation = FALSE]
             /\ otg' = otg
       /\ ( /\ result = "ValidationError"
            /\ ~TargetVelocityExceedsLimit(input)
            /\ result' \in Success )
          => output'.new_calculation <=>
               (~otg.current_input_initialized
                  \/ InputDiffers(input, otg.current_input))]_vars

\* C7 witness: an update with an invalid input has returned the error after
\* an earlier update had stored an input and sampled
C7_Witness_ErrorReturned ==
  /\ handler = "throw"
  /\ result = "ValidationError"
  /\ TargetVelocityExceedsLimit(input)
  /\ otg.current_input_initialized
  /\ output.time > 0
  /\ ~output.new_calculation

\* C8: an update whose recalculation computes a duration above the guard
\* returns ErrorTrajectoryDuration.
C8_LongDurationReturnsError ==
  [][( /\ Update
       /\ result' # "Panic"
       /\ output'.trajectory.duration > MaxDuration
       /\ output'.trajectory.duration # output.trajectory.duration )
     => result' = "ErrorTrajectoryDuration"]_vars

\* C9: an update with an input or an output whose number of DoFs differs
\* from that of the instance reports the error (Error, or the error the
\* handler propagates) and neither calculates nor samples.
C9_DofMismatchReported ==
  [][( /\ Update
       /\ \/ otg.degrees_of_freedom # input.degrees_of_freedom
          \/ otg.degrees_of_freedom # output.degrees_of_freedom )
     => /\ result' \in {"Error", "CalculatorError"}
        /\ output' = output
        /\ otg' = otg]_vars

(***************************************************************************)
(* The offline calculation: one call of Ruckig::calculate                  *)
(***************************************************************************)
\* the kinematic problems of the offline inputs: with one and with two
\* blocked intervals, with a brake pre-trajectory
CalcKinIds == {2, 3, 10}

\* the inputs of n DoFs the offline calculation is called with
CalcInputs(n) ==
  { [ MkInput(n, kins, "Position", sync, disc,
              [d \in 1..n |-> d # off], mdur)
      EXCEPT !.per_dof_synchronization =
               IF free THEN Some([d \in 0..(n - 1) |->
                                   IF d = n - 1 THEN "None" ELSE sync])
               ELSE None ] :
      kins \in [1..n -> CalcKinIds],
      sync \in Synchronizations,
      disc \in DurationDiscretizations,
      off \in 0..1,
      free \in BOOLEAN,
      mdur \in {None} \cup {Some(m) : m \in 0..MaxMinimumDuration} }

InitCalc ==
  /\ handler \in Handlers
  /\ \E n \in 1..MaxCalcDofs, dt \in 1..MaxDeltaTime :
       /\ otg = NewRuckig(n, dt)
       /\ output = NewOutput(n)
       /\ input \in CalcInputs(n)
  /\ result = "None"
  /\ pc = "free"

\* otg.calculate(&input, &mut output.trajectory)
Calculate ==
  /\ result = "None"
  /\ \E c \in {RuckigCalculate(otg, input, output.trajectory, handler)} :
       /\ otg' = [otg EXCEPT !.calculator = c.calc]
       /\ output' = [output EXCEPT !.trajectory = c.traj]
       /\ result' = IF c.res = Panic THEN "Panic" ELSE c.res[2]
  /\ UNCHANGED <<input, handler, pc>>

NextCalc == Calculate

SpecCalc == InitCalc /\ [][NextCalc]_vars

\* C10: after a calculation that has returned Working for an input with a
\* minimum duration m, the duration of the trajectory is at least m, for
\* every synchronization, number of DoFs and discretization.
C10_DurationAtLeastMinimum ==
  (result = "Working" /\ IsSome(input.minimum_duration))
    => output.trajectory.duration >= Unwrap(input.minimum_duration)

\* C10 witness: a minimum duration above the duration of every DoF has
\* become the duration of a trajectory of DoFs without synchronization
C10_Witness_MinimumTaken ==
  /\ result = "Working"
  /\ input.synchronization = "None"
  /\ input.minimum_duration = Some(5)
  /\ output.trajectory.duration = 5
  /\ \A d \in DOMAIN output.trajectory.independent_min_durations :
       output.trajectory.independent_min_durations[d] < 5

(***************************************************************************)
(* The control loop: update, pass_to_input, update, ...                    *)
(***************************************************************************)
\* the inputs of the control loop; they pass the validation
LoopInputs ==
  { <<1, <<1>>, "Position", "Time", "Continuous", <<TRUE>>, None>>,
    <<1, <<2>>, "Position", "Time", "Continuous", <<TRUE>>, None>>,
    <<1, <<3>>, "Position", "Time", "Discrete", <<TRUE>>, None>>,
    <<1, <<11>>, "Position", "Time", "Continuous", <<TRUE>>, None>>,
    <<1, <<2>>, "Position", "Time", "Continuous", <<TRUE>>, Some(4)>>,
    <<2, <<1, 2>>, "Position", "Time", "Continuous", <<TRUE, TRUE>>, None>>,
    <<2, <<1, 3>>, "Position", "Phase", "Continuous", <<TRUE, TRUE>>, None>>,
    <<2, <<2, 3>>, "Position", "None", "Discrete", <<TRUE, TRUE>>, None>>,
    <<2, <<1, 2>>, "Position", "TimeIfNecessary", "Continuous",
      <<TRUE, FALSE>>, Some(6)>>,
    <<2, <<1, 10>>, "Position", "Time", "Continuous", <<TRUE, TRUE>>,
      Some(7)>> }

InitLoop ==
  /\ handler \in Handlers
  /\ \E b \in LoopInputs, dt \in 1..MaxDeltaTime :
       /\ otg = NewRuckig(b[1], dt)
       /\ output = NewOutput(b[1])
       /\ input = InputOf(b)
  /\ result = "None"
  /\ pc = "update"

\* otg.update(&input, &mut output) in the loop
LoopUpdate ==
  /\ pc = "update"
  /\ Running
  /\ output.time + otg.delta_time <= MaxLoopTime
  /\ \E r \in {UpdateOp(otg, input, output, handler)} :
       /\ otg' = r.otg
       /\ output' = r.output
       /\ result' = r.result
  /\ pc' = "pass"
  /\ UNCHANGED <<input, handler>>

\* output.pass_to_input(&mut input) in the loop
LoopPassToInput ==
  /\ pc = "pass"
  /\ input' = PassToInputOp(output, input)
  /\ pc' = "update"
  /\ UNCHANGED <<otg, output, result, handler>>

NextLoop == LoopUpdate \/ LoopPassToInput

\* a turn of the loop can be taken
LoopEnabled ==
  \/ pc = "pass"
  \/ pc = "update" /\ Running /\ output.time + otg.delta_time <= MaxLoopTime

\* a turn of the loop, seen at the position of the caller
LoopTurn ==
  /\ LoopEnabled
  /\ pc' = IF pc = "update" THEN "pass" ELSE "update"

\* the caller keeps calling: a turn that can be taken is taken
SpecLoop == InitLoop /\ [][NextLoop]_vars /\ WF_pc(LoopTurn)

\* C4: in the control loop, with the sampled state fed back and the target
\* unchanged, once an update has returned Working or Finished the updates
\* return Working only finitely often and from then on Finished; a Finished
\* is never followed by another result.
C4_LoopFinishes ==
  /\ [](result \in Success => <>[](result = "Finished"))
  /\ [][result = "Finished" => result' = "Finished"]_vars

\* C4 witness: the loop has returned Working, then Finished, and Finished
\* again for a further call
C4_Witness_FinishedTwice ==
  /\ result = "Finished"
  /\ pc = "pass"
  /\ ~output.new_calculation
  /\ output.trajectory.duration >= otg.delta_time
  /\ output.time > output.trajectory.duration + otg.delta_time

(***************************************************************************)
(* Repeated calculations into the same trajectory object                   *)
(***************************************************************************)
\* the kinematic problems of the repeated calculation: one without and one
\* with a brake pre-trajectory
RecalcKinIds == {2, 3}

\* the numbers of DoFs of the repeated calculation
RecalcDofs == {1, 2}

\* the current states of the repeated calculation: one at rest at a
\* position other than 0.0, one moving
RecalcCurrents == {State(10), State(11)}

\* the inputs of n DoFs of the repeated calculation
RecalcInputs(n) ==
  { [ MkInput(n, kins, "Position", sync, "Continuous", enabled, mdur)
      EXCEPT !.current = [d \in 0..(n - 1) |-> cur] ] :
      kins \in [1..n -> RecalcKinIds],
      sync \in {"Time", "None"},
      enabled \in [1..n -> BOOLEAN],
      mdur \in {None, Some(4)},
      cur \in RecalcCurrents }

\* the caller changes one field of the input, or one DoF of a vector
OneChange(x, y) ==
  \/ /\ \E f \in {"synchronization", "minimum_duration", "current"} :
          /\ x[f] # y[f]
          /\ y = [x EXCEPT ![f] = y[f]]
  \/ \E f \in {"kin", "enabled"} : \E d \in DOMAIN x[f] :
       /\ x[f][d] # y[f][d]
       /\ y = [x EXCEPT ![f][d] = y[f][d]]

InitRecalc ==
  /\ handler \in Handlers
  /\ \E n \in RecalcDofs :
       /\ otg = NewRuckig(n, 1)
       /\ output = NewOutput(n)
       /\ input \in RecalcInputs(n)
  /\ result = "None"
  /\ pc = "input"

\* otg.calculate(&input, &mut output.trajectory), any number of times on
\* the same trajectory
Recalculate ==
  /\ pc = "input"
  /\ Running
  /\ \E c \in {RuckigCalculate(otg, input, output.trajectory, handler)} :
       /\ otg' = [otg EXCEPT !.calculator = c.calc]
       /\ output' = [output EXCEPT !.trajectory = c.traj]
       /\ result' = IF c.res = Panic THEN "Panic" ELSE c.res[2]
  /\ pc' = "calculated"
  /\ UNCHANGED <<input, handler>>

\* the caller prepares the input of the next calculation
NextInput ==
  /\ pc = "calculated"
  /\ input' \in RecalcInputs(input.degrees_of_freedom)
  /\ OneChange(input, input')
  /\ pc' = "input"
  /\ UNCHANGED <<otg, output, result, handler>>

NextRecalc == Recalculate \/ NextInput

SpecRecalc == InitRecalc /\ [][NextRecalc]_vars

\* the trajectory in the output is the one calculate has made of the input
Calculated_Working == pc = "calculated" /\ result = "Working"

(***************************************************************************)
(* Properties of the calculated trajectory                                 *)
(***************************************************************************)
\* C11: with Discrete duration discretization the duration of every
\* successfully calculated trajectory is an integer multiple of delta_time,
\* whatever the synchronization modes of the DoFs and the minimum duration.
C11_DiscreteDurationIsMultiple ==
  (result = "Working" /\ input.duration_discretization = "Discrete")
    => output.trajectory.duration % otg.delta_time = 0

\* C12: after every successful calculate with one DoF, no minimum_duration
\* and Continuous discretization, the duration of the trajectory equals
\* independent_min_durations[0].
C12_SingleDofDurationIsMinimum ==
  ( /\ Calculated_Working
    /\ otg.degrees_of_freedom = 1
    /\ IsNone(input.minimum_duration)
    /\ input.duration_discretization = "Continuous" )
    => output.trajectory.duration
         = output.trajectory.independent_min_durations[0]

\* the DoFs of the input that are not enabled
DisabledDofs == {d \in DOMAIN input.enabled : ~input.enabled[d]}

\* the state at_time reports for DoF d of the trajectory in the output
SampledState(d, t) == AtTime(output.trajectory, t).new_state[d]

\* C13: for a DoF with enabled = false, the calculated trajectory sampled at
\* any time t >= 0 yields exactly the current state of the input: the state
\* of the DoF is constant over time.
C13_DisabledDofConstant ==
  Calculated_Working =>
    \A d \in DisabledDofs : \A t \in 0..MaxSampleTime :
      SampledState(d, t) = input.current[d]

\* C14: for a DoF with enabled = false, at_time(t) returns the current state
\* of the input integrated forward by t with zero jerk, below and beyond the
\* duration, whatever was calculated into the trajectory object before.
C14_DisabledDofIntegrated ==
  Calculated_Working =>
    \A d \in DisabledDofs : \A t \in 0..MaxSampleTime :
      SampledState(d, t) = Integrate(t, input.current[d], ZeroJerk)

\* the largest element of a non-empty set of numbers
SetMax(S) == CHOOSE x \in S : \A y \in S : y <= x

\* the enabled DoFs whose synchronization is None
NoneDofs ==
  {d \in DOMAIN input.enabled :
     input.enabled[d] /\ PerDofSynchronization(input, d) = "None"}

\* tf: the duration synchronize finds for the blocks of the calculator
SynchronizedDuration ==
  Synchronize(otg.calculator, output.trajectory, input,
              otg.delta_time).traj.duration

\* the duration is the larger of tf and the t_min of the DoFs without
\* synchronization
DurationIsMaximum ==
  output.trajectory.duration =
    SetMax({SynchronizedDuration}
             \cup {otg.calculator.blocks[d].t_min : d \in NoneDofs})

Timing(p) == IF p.body[1] = "phase" THEN p.body[2] ELSE p.body

\* every DoF of the input uses Phase synchronization and the input is
\* collinear
AllPhaseCollinear ==
  /\ \A d \in DofsOf(otg.calculator) :
       PerDofSynchronization(input, d) = "Phase"
  /\ IsInputCollinear(otg.calculator, input)

\* the limiting DoF synchronize finds for the blocks of the calculator
LimitingDof ==
  Synchronize(otg.calculator, output.trajectory, input,
              otg.delta_time).limiting_dof

\* C16 (as stated): when every DoF uses Phase synchronization and the input
\* is collinear, after a successful calculate the profiles of all DoFs
\* have the same segment durations.
C16_PhaseProfilesShareTiming ==
  (result = "Working" /\ AllPhaseCollinear) =>
    \A d, e \in DofsOf(otg.calculator) :
      Timing(output.trajectory.profiles[d])
        = Timing(output.trajectory.profiles[e])

\* the phase synchronization has taken place: synchronize has found a
\* limiting DoF and the timing check has succeeded for every retimed DoF
PhaseSucceeded ==
  /\ IsSome(LimitingDof)
  /\ output.trajectory.duration # 0
  /\ \A d \in PhaseDofs(otg.calculator, input, Unwrap(LimitingDof)) :
       PhaseCheck(output.trajectory, input, d)

\* C16 (amended): when, in addition, synchronize has found a limiting DoF
\* and the timing check of the phase synchronization has succeeded, the
\* profiles of all enabled DoFs have the segment durations of the limiting
\* DoF.
C16_PhaseSucceededSharesTiming ==
  (result = "Working" /\ AllPhaseCollinear /\ PhaseSucceeded) =>
    \A d \in DofsOf(otg.calculator) :
      input.enabled[d] =>
        Timing(output.trajectory.profiles[d])
          = Timing(output.trajectory.profiles[Unwrap(LimitingDof)])

\* C16 witness: a DoF has received the timing of a limiting DoF with
\* another kinematic problem
C16_Witness_TimingCopied ==
  /\ result = "Working"
  /\ AllPhaseCollinear
  /\ PhaseSucceeded
  /\ \E d \in DofsOf(otg.calculator) :
       /\ input.enabled[d]
       /\ output.trajectory.profiles[d].body[1] = "phase"
       /\ input.kin[d] # input.kin[Unwrap(LimitingDof)]

\* the state of a sample is the terminal state of profile p or integrated
\* from it with jerk 0
FromTerminalState(p, s) ==
  \/ s = p.last
  \/ s[1] = "int" /\ s[3] = p.last /\ s[4] = ZeroJerk

\* C17: at_time(t) with t >= duration reports jerk 0 for every DoF, the
\* number of sections as section index and a state derived from the
\* terminal state of each DoF; with 0 <= t < duration it reports section 0.
C17_AtTimeSections ==
  \A t \in 0..MaxSampleTime :
    IF t >= output.trajectory.duration
    THEN /\ AtTime(output.trajectory, t).new_section = Sections
         /\ \A d \in DOMAIN output.trajectory.profiles :
              /\ AtTime(output.trajectory, t).new_jerk[d] = ZeroJerk
              /\ FromTerminalState(output.trajectory.profiles[d],
                                   AtTime(output.trajectory, t).new_state[d])
    ELSE AtTime(output.trajectory, t).new_section = 0

\* C17 witness: a calculated trajectory that is sampled before and after
\* its duration
C17_Witness_BothSections ==
  /\ result = "Working"
  /\ output.trajectory.duration \in 2..MaxSampleTime
  /\ AtTime(output.trajectory, 1).new_section = 0
  /\ AtTime(output.trajectory, output.trajectory.duration).new_section
       = Sections
  /\ \E d \in DOMAIN output.trajectory.profiles :
       AtTime(output.trajectory, MaxSampleTime).new_state[d][1] = "int"

\* C18: after an update that has sampled, output.new_section is the section
\* index at_time finds for the sample just taken.
C18_NewSectionIsSampledSection ==
  (result \in {"Working", "Finished"}) =>
    output.new_section
      = AtTime(output.trajectory, output.time).new_section

\* the DoF that determines the duration starts with a brake pre-trajectory
LimitingDofBrakes ==
  /\ result = "Working"
  /\ IsSome(LimitingDof)
  /\ input.enabled[Unwrap(LimitingDof)]
  /\ output.trajectory.profiles[Unwrap(LimitingDof)].brake.duration > 0

\* C19 (as stated): when the DoF that determines the duration starts with a
\* non-empty brake, the duration of the trajectory is the time t_sum[6] of
\* the main profile of that DoF, without brake.duration.
C19_DurationExcludesBrake ==
  LimitingDofBrakes =>
    output.trajectory.duration
      = output.trajectory.profiles[Unwrap(LimitingDof)].tsum

\* C19 (amended): the duration includes the brake pre-trajectory: it is at
\* least t_sum[6] plus brake.duration of that DoF, and equal to it under a
\* Continuous duration, where the sample at the duration is the terminal
\* state of the profile; a sample before brake.duration is taken from the
\* brake.
C19_DurationIncludesBrake ==
  LimitingDofBrakes =>
    /\ output.trajectory.duration
         >= output.trajectory.profiles[Unwrap(LimitingDof)].tsum
            + output.trajectory.profiles[Unwrap(LimitingDof)].brake.duration
    /\ AtTime(output.trajectory, 0).new_jerk[Unwrap(LimitingDof)] = BrakeJerk
    /\ input.duration_discretization = "Continuous" =>
         /\ output.trajectory.duration
              = output.trajectory.profiles[Unwrap(LimitingDof)].tsum
                + output.trajectory.profiles[Unwrap(LimitingDof)].brake.duration
         /\ AtTime(output.trajectory,
                   output.trajectory.duration).new_state[Unwrap(LimitingDof)]
              = output.trajectory.profiles[Unwrap(LimitingDof)].last

\* C19 witness: a trajectory of two DoFs whose limiting DoF brakes first
C19_Witness_LimitingDofBrakes ==
  /\ LimitingDofBrakes
  /\ otg.degrees_of_freedom = 2
  /\ \A d \in DofsOf(otg.calculator) : input.enabled[d]
  /\ output.trajectory.profiles[Unwrap(LimitingDof)].tsum > 0
  /\ input.duration_discretization = "Continuous"

\* reset() was called after an update had stored an input, and no update
\* has stored one since
AfterReset ==
  /\ ~otg.current_input_initialized
  /\ otg.current_input
       # NewRuckig(otg.degrees_of_freedom, otg.delta_time).current_input

\* C20 (as stated): the next update after reset() recalculates the
\* trajectory: new_calculation is true after it, whatever its input is.
C20_UpdateAfterResetRecalculates ==
  [][(Update /\ AfterReset) => output'.new_calculation]_vars

\* C20 (amended): the next update after reset() calls calculate, also for
\* an input equal to the stored one; new_calculation is true after it
\* unless calculate has returned an error, and it is true when the input
\* is equal to the stored one.
C20_UpdateAfterResetCalculates ==
  [][(Update /\ AfterReset) =>
       /\ output'.trajectory
            = RuckigCalculate(otg, input, output.trajectory, handler).traj
       /\ output'.new_calculation
            <=> IsOk(RuckigCalculate(otg, input, output.trajectory,
                                     handler).res)
       /\ InputEq(input, otg.current_input) => output'.new_calculation]_vars

\* C20 witness: the second update has recalculated for the input the first
\* one had stored, from the state sampled on the first trajectory
C20_Witness_RecalculatedSameInput ==
  /\ result \in Success
  /\ output.new_calculation
  /\ output.time = 2 * otg.delta_time
  /\ otg.degrees_of_freedom = 1
  /\ output.trajectory.profiles[0].p0[1] = "at"
  /\ output.trajectory.profiles[0].p0[4] = <<"pmin", input.kin[0]>>

(***************************************************************************)
(* The offline calculation with the three control interfaces               *)
(***************************************************************************)
\* kinematic problems for which step 1 finds a profile
IfaceKinIds == {1, 2, 3}

\* valid inputs of n enabled DoFs with a global control interface and an
\* optional per-DoF override
IfaceInputs(n) ==
  { [ MkInput(n, kins, ci, "Time", "Continuous", [d \in 1..n |-> TRUE], None)
      EXCEPT !.per_dof_control_interface = pd ] :
      kins \in [1..n -> IfaceKinIds],
      ci \in ControlInterfaces,
      pd \in {None} \cup {Some(f) : f \in [0..(n - 1) -> ControlInterfaces]} }

InitIface ==
  /\ handler \in Handlers
  /\ \E n \in 1..MaxCalcDofs, dt \in 1..MaxDeltaTime :
       /\ otg = NewRuckig(n, dt)
       /\ output = NewOutput(n)
       /\ input \in IfaceInputs(n)
  /\ result = "None"
  /\ pc = "free"

SpecIface == InitIface /\ [][NextCalc]_vars

\* the target state (pf, vf, af) of a DoF of the input
TargetState(d) == State(KinTable[input.kin[d]].target)

\* C21: for a successfully calculated trajectory at_time(0) returns the
\* current state of the input for every DoF, and at_time(duration) returns
\* the target state.
C21_BoundaryMatch ==
  Calculated_Working =>
    \A d \in DOMAIN input.current :
      /\ SampledState(d, 0) = input.current[d]
      /\ SampledState(d, output.trajectory.duration) = TargetState(d)

\* the sample of DoF d at time t is taken from its brake pre-trajectory:
\* the brake calculation has found the current state outside the limits
\* or about to leave them
InBrake(d, t) ==
  /\ output.trajectory.profiles[d].brake.duration > 0
  /\ t < output.trajectory.profiles[d].brake.duration

\* the segments of the profile of DoF d have passed Profile::check or
\* check_with_timing for the limits of the input
ProfileChecked(d) ==
  LET p == output.trajectory.profiles[d]
  IN  CASE p.body[1] \in {"pmin", "a", "b"} -> p.body[2] = input.kin[d]
        [] p.body[1] = "step2" ->
             /\ p.body[2] = input.kin[d]
             /\ DurationFeasible(input, d, p.body[3])
        [] p.body[1] = "phase" -> PhaseCheck(output.trajectory, input, d)
        [] OTHER -> FALSE

\* velocity and acceleration of the sample of DoF d at time t are within
\* the limits
SampleWithinLimits(d, t) == ~InBrake(d, t) /\ ProfileChecked(d)

\* the times 0..duration as far as the trajectories are sampled
SampleTimes ==
  {t \in 0..MaxSampleTime : t <= output.trajectory.duration}

Step1Errors ==
  {"CalculatorError", "ErrorExecutionTimeCalculation", "ErrorZeroLimits"}

\* an enabled DoF of the input uses the Acceleration interface
UsesAcceleration ==
  \E d \in DofsOf(otg.calculator) :
    input.enabled[d] /\ PerDofControlInterface(input, d) = "Acceleration"

\* C23: for a valid input with a DoF whose control interface (global or
\* per DoF) is Acceleration, calculate produces a trajectory and does not
\* fail with a step-1 error.
C23_AccelerationInterfaceSupported ==
  (result # "None" /\ InputValidate(input) = "ok" /\ UsesAcceleration) =>
    result = "Working" /\ result \notin Step1Errors

\* what a fresh Ruckig instance with a fresh trajectory calculates for the
\* input
FreshCalculation ==
  RuckigCalculate(NewRuckig(otg.degrees_of_freedom, otg.delta_time), input,
                  NewTrajectory(otg.degrees_of_freedom), handler)

\* C24: a recalculation on the same objects returns what a fresh instance
\* with a fresh trajectory returns for the input, and after a successful
\* one the duration, the profiles and independent_min_durations are those
\* of the fresh calculation.
C24_RecalculationEqualsFresh ==
  pc = "calculated" =>
    /\ result = FreshCalculation.res[2]
    /\ result = "Working" =>
         /\ output.trajectory.duration = FreshCalculation.traj.duration
         /\ output.trajectory.profiles = FreshCalculation.traj.profiles
         /\ output.trajectory.independent_min_durations
              = FreshCalculation.traj.independent_min_durations

\* what synchronize returns for the blocks of the calculator
Synchronized ==
  Synchronize(otg.calculator, output.trajectory, input, otg.delta_time)

\* calculate has passed the loop over the DoFs and has called synchronize:
\* the case of one DoF without minimum_duration and discretization returns
\* before the call
SynchronizeCalled ==
  /\ result \notin {"None", "Panic", "ValidationError"}
  /\ \A d \in DofsOf(otg.calculator) :
       input.enabled[d] => Step1Found(input, d)
  /\ ~(/\ otg.degrees_of_freedom = 1
       /\ IsNone(input.minimum_duration)
       /\ input.duration_discretization # "Discrete")

\* the DoFs whose synchronization is not None
SynchronizedDofs ==
  {d \in DofsOf(otg.calculator) : PerDofSynchronization(input, d) # "None"}

\* a candidate as synchronize tests it: rounded up to a multiple of
\* delta_time under Discrete
Rounded(t) ==
  IF input.duration_discretization = "Discrete" /\ ~IsInfinite(t)
  THEN CHOOSE r \in t..(t + otg.delta_time - 1) : r % otg.delta_time = 0
  ELSE t

\* t_min, a.right and b.right of the DoFs whose synchronization is not None
BlockCandidates ==
  UNION { {Rounded(otg.calculator.blocks[d].t_min)}
            \cup (IF IsSome(otg.calculator.blocks[d].a)
                  THEN {Rounded(Unwrap(otg.calculator.blocks[d].a).right)}
                  ELSE {})
            \cup (IF IsSome(otg.calculator.blocks[d].b)
                  THEN {Rounded(Unwrap(otg.calculator.blocks[d].b).right)}
                  ELSE {}) : d \in SynchronizedDofs }

\* the candidates the claim names
NamedCandidates ==
  BlockCandidates
    \cup (IF IsSome(input.minimum_duration)
          THEN {Rounded(Unwrap(input.minimum_duration))} ELSE {})

\* t is at least the t_min of every DoF whose synchronization is not None
\* and not strictly inside one of its intervals
Unblocked(t) ==
  \A d \in SynchronizedDofs :
    /\ t >= otg.calculator.blocks[d].t_min
    /\ IsSome(otg.calculator.blocks[d].a) =>
         ~(/\ t > Unwrap(otg.calculator.blocks[d].a).left
           /\ t < Unwrap(otg.calculator.blocks[d].a).right)
    /\ IsSome(otg.calculator.blocks[d].b) =>
         ~(/\ t > Unwrap(otg.calculator.blocks[d].b).left
           /\ t < Unwrap(otg.calculator.blocks[d].b).right)

\* C25 (as stated): when synchronize succeeds, the chosen duration is one
\* of the candidates, is blocked for no DoF whose synchronization is not
\* None, and is the smallest candidate with these properties.
C25_SmallestUnblockedCandidate ==
  (SynchronizeCalled /\ Synchronized.found) =>
    /\ Synchronized.traj.duration \in NamedCandidates
    /\ Unblocked(Synchronized.traj.duration)
    /\ \A c \in NamedCandidates :
         Unblocked(c) => Synchronized.traj.duration <= c

\* the candidates synchronize sorts: a DoF with synchronization None
\* contributes 0.0
AllCandidates ==
  NamedCandidates
    \cup (IF SynchronizedDofs # DofsOf(otg.calculator) THEN {0} ELSE {})

\* a candidate synchronize accepts: finite, unblocked and not less than
\* minimum_duration
Accepted(t) ==
  /\ ~IsInfinite(t)
  /\ Unblocked(t)
  /\ t >= UnwrapOr(input.minimum_duration, 0)

\* C25 (amended): the chosen duration is the smallest of the candidates,
\* among them 0.0 for a DoF with synchronization None, that is finite,
\* unblocked and not less than minimum_duration.
C25_SmallestAcceptedCandidate ==
  (SynchronizeCalled /\ Synchronized.found) =>
    /\ Synchronized.traj.duration \in AllCandidates
    /\ Accepted(Synchronized.traj.duration)
    /\ \A c \in AllCandidates :
         Accepted(c) => Synchronized.traj.duration <= c

\* C25 witness: the largest t_min is inside an interval of another DoF and
\* a later candidate was chosen
C25_Witness_IntervalSkipped ==
  /\ result = "Working"
  /\ SynchronizeCalled
  /\ Synchronized.found
  /\ otg.degrees_of_freedom = 2
  /\ SynchronizedDofs = DofsOf(otg.calculator)
  /\ \E d \in SynchronizedDofs :
       /\ ~Unblocked(otg.calculator.blocks[d].t_min)
       /\ \A e \in SynchronizedDofs :
            otg.calculator.blocks[e].t_min <= otg.calculator.blocks[d].t_min
  /\ \A d \in SynchronizedDofs :
       Synchronized.traj.duration > otg.calculator.blocks[d].t_min

(***************************************************************************)
(* The offline calculation with limits of zero                             *)
(***************************************************************************)
\* kinematic problems with a blocked interval without end (a zero
\* acceleration or jerk limit, a zero velocity limit) and without one
ZeroKinIds == {1, 3, 8, 9}

\* the inputs of n DoFs with such problems
ZeroInputs(n) ==
  { MkInput(n, kins, "Position", sync, disc, [d \in 1..n |-> d # off], mdur) :
      kins \in [1..n -> ZeroKinIds],
      sync \in Synchronizations,
      disc \in DurationDiscretizations,
      off \in 0..1,
      mdur \in {None} \cup {Some(m) : m \in 0..MaxMinimumDuration} }

InitZero ==
  /\ handler \in Handlers
  /\ \E n \in 1..MaxCalcDofs, dt \in 1..MaxDeltaTime :
       /\ otg = NewRuckig(n, dt)
       /\ output = NewOutput(n)
       /\ input \in ZeroInputs(n)
  /\ result = "None"
  /\ pc = "free"

SpecZero == InitZero /\ [][NextCalc]_vars

\* synchronize was called and has accepted none of its candidates
SynchronizeFails == SynchronizeCalled /\ ~Synchronized.found

\* the error code of a failed synchronization
SynchronizationError ==
  IF \E d \in DofsOf(otg.calculator) : KinTable[input.kin[d]].zero
  THEN "ErrorZeroLimits" ELSE "ErrorSynchronizationCalculation"

TimeIfNecessaryAtRest(d) ==
  /\ input.enabled[d]
  /\ PerDofSynchronization(input, d) = "TimeIfNecessary"
  /\ KinTable[input.kin[d]].target_velocity = 0

\* the input with the synchronization of DoF d replaced by Time
WithTime(d) ==
  [input EXCEPT !.per_dof_synchronization =
     Some([e \in DofsOf(otg.calculator) |->
             IF e = d THEN "Time" ELSE PerDofSynchronization(input, e)])]

\* the calculation of the input with the synchronization of DoF d replaced
\* by Time gives the result and the trajectory of this calculation
SynchronizedAsTime(d) ==
  \E c \in {RuckigCalculate(NewRuckig(otg.degrees_of_freedom, otg.delta_time),
                            WithTime(d),
                            NewTrajectory(otg.degrees_of_freedom), handler)} :
    /\ c.traj = output.trajectory
    /\ result = (IF c.res = Panic THEN "Panic" ELSE c.res[2])

\* C27: an enabled TimeIfNecessary DoF with a target velocity and
\* acceleration of zero ends with its profile p_min; with another target it
\* is synchronized as a DoF with Time is.
C27_TimeIfNecessary ==
  /\ result = "Working" =>
       \A d \in DofsOf(otg.calculator) :
         TimeIfNecessaryAtRest(d) =>
           output.trajectory.profiles[d] = otg.calculator.blocks[d].p_min
  /\ result # "None" =>
       \A d \in DofsOf(otg.calculator) :
         ( /\ input.enabled[d]
           /\ PerDofSynchronization(input, d) = "TimeIfNecessary"
           /\ ~TimeIfNecessaryAtRest(d) ) => SynchronizedAsTime(d)

\* C27 witness: of two TimeIfNecessary DoFs the one with the target at rest
\* has kept its shorter profile p_min and the other one was fitted to the
\* duration by step 2
C27_Witness_KeptAndFitted ==
  /\ result = "Working"
  /\ \E d, e \in DofsOf(otg.calculator) :
       /\ TimeIfNecessaryAtRest(d)
       /\ otg.calculator.blocks[d].t_min < output.trajectory.duration
       /\ output.trajectory.profiles[d] = otg.calculator.blocks[d].p_min
       /\ input.enabled[e]
       /\ PerDofSynchronization(input, e) = "TimeIfNecessary"
       /\ ~TimeIfNecessaryAtRest(e)
       /\ output.trajectory.profiles[e].body[1] = "step2"

(***************************************************************************)
(* Block::calculate_block and the profile checks as functions              *)
(***************************************************************************)
\* the durations t_sum[6] of the valid profiles, in units of f64::EPSILON:
\* closer than 8, between 8 and 32, and further apart than 256
ProfileDurations == {0, 4, 20, 400}

\* the arguments of calculate_block: the profiles step 1 has found valid
\* (current_index is at most 5), which share the brake profile
\* (set_boundary_from_profile), and numerical_robust
BlockArguments(n) ==
  { [ valid_profiles |->
        [i \in 0..(n - 1) |->
           [t_sum |-> f[i][1], direction |-> f[i][2],
            brake |-> [duration |-> bd]]],
      valid_profile_counter |-> n,
      numerical_robust |-> robust ] :
      bd \in {0, 3}, robust \in {None, Some(FALSE)},
      f \in [0..(n - 1) -> ProfileDurations \X {"UP", "DOWN"}] }

\* Block::set_min_profile
SetMinProfile(profile) ==
  [p_min |-> profile, t_min |-> profile.t_sum + profile.brake.duration,
   a |-> None, b |-> None]

\* from_profiles without the comparison of the two durations
FromProfiles_Unordered(profile_left, profile_right) ==
  Interval(profile_left.t_sum + profile_left.brake.duration,
           profile_right.t_sum + profile_right.brake.duration, profile_right)

\* Interval::from_profiles
FromProfiles(profile_left, profile_right) ==
  IF profile_left.t_sum + profile_left.brake.duration
       < profile_right.t_sum + profile_right.brake.duration
  THEN Interval(profile_left.t_sum + profile_left.brake.duration,
                profile_right.t_sum + profile_right.brake.duration,
                profile_right)
  ELSE Interval(profile_right.t_sum + profile_right.brake.duration,
                profile_left.t_sum + profile_left.brake.duration,
                profile_left)

\* remove_profile: the first valid_profile_counter - 1 profiles it leaves
RemoveProfile(valid_profiles, valid_profile_counter, index) ==
  [i \in 0..(valid_profile_counter - 2) |->
     IF i < index THEN valid_profiles[i] ELSE valid_profiles[i + 1]]

\* the index of the fastest profile: min_by returns the first minimum
IdxMin(valid_profiles, valid_profile_counter) ==
  CHOOSE i \in 0..(valid_profile_counter - 1) :
    /\ \A j \in 0..(valid_profile_counter - 1) :
         valid_profiles[i].t_sum <= valid_profiles[j].t_sum
    /\ \A j \in 0..(i - 1) : valid_profiles[j].t_sum > valid_profiles[i].t_sum

\* calculate_block from "Find index of fastest profile" on, idx_min found
FromFastest(vp, n, idx_min) ==
  IF n = 3
  THEN [ok |-> TRUE, valid_profiles |-> vp, valid_profile_counter |-> n,
        block |-> [SetMinProfile(vp[idx_min]) EXCEPT
                     !.a = Some(FromProfiles(vp[(idx_min + 1) % 3],
                                             vp[(idx_min + 2) % 3]))]]
  ELSE IF n = 5
  THEN [ok |-> TRUE, valid_profiles |-> vp, valid_profile_counter |-> n,
        block |->
          IF vp[(idx_min + 1) % 5].direction = vp[(idx_min + 2) % 5].direction
          THEN [SetMinProfile(vp[idx_min]) EXCEPT
                  !.a = Some(FromProfiles(vp[(idx_min + 1) % 5],
                                          vp[(idx_min + 2) % 5])),
                  !.b = Some(FromProfiles(vp[(idx_min + 3) % 5],
                                          vp[(idx_min + 4) % 5]))]
          ELSE [SetMinProfile(vp[idx_min]) EXCEPT
                  !.a = Some(FromProfiles(vp[(idx_min + 1) % 5],
                                          vp[(idx_min + 4) % 5])),
                  !.b = Some(FromProfiles(vp[(idx_min + 2) % 5],
                                          vp[(idx_min + 3) % 5]))]]
  ELSE [ok |-> FALSE, valid_profiles |-> vp, valid_profile_counter |-> n,
        block |-> SetMinProfile(vp[idx_min])]

\* |x - y| < tolerance
Near(x, y, tolerance) == x - y < tolerance /\ y - x < tolerance

\* Block::calculate_block: what it returns and how it leaves the block and
\* the valid profiles
CalculateBlock(block, vp, n, numerical_robust) ==
  IF n = 1
  THEN [ok |-> TRUE, valid_profiles |-> vp, valid_profile_counter |-> n,
        block |-> SetMinProfile(vp[0])]
  ELSE IF n = 2 /\ Near(vp[0].t_sum, vp[1].t_sum, 8)
  THEN [ok |-> TRUE, valid_profiles |-> vp, valid_profile_counter |-> n,
        block |-> SetMinProfile(vp[0])]
  ELSE IF n = 2 /\ UnwrapOr(numerical_robust, TRUE)
  THEN [ok |-> TRUE, valid_profiles |-> vp, valid_profile_counter |-> n,
        block |->
          IF vp[0].t_sum < vp[1].t_sum
          THEN [SetMinProfile(vp[0]) EXCEPT
                  !.a = Some(FromProfiles(vp[0], vp[1]))]
          ELSE [SetMinProfile(vp[1]) EXCEPT
                  !.a = Some(FromProfiles(vp[1], vp[0]))]]
  ELSE IF n = 2
  THEN FromFastest(vp, n, IdxMin(vp, n))
  ELSE IF n = 4 /\ Near(vp[0].t_sum, vp[1].t_sum, 32)
            /\ vp[0].direction # vp[1].direction
  THEN FromFastest(RemoveProfile(vp, n, 1), 3,
                   IdxMin(RemoveProfile(vp, n, 1), 3))
  ELSE IF n = 4 /\ \/ /\ Near(vp[2].t_sum, vp[3].t_sum, 256)
                      /\ vp[2].direction # vp[3].direction
                   \/ /\ Near(vp[0].t_sum, vp[3].t_sum, 256)
                      /\ vp[0].direction # vp[3].direction
  THEN FromFastest(RemoveProfile(vp, n, 3), 3,
                   IdxMin(RemoveProfile(vp, n, 3), 3))
  ELSE IF n % 2 = 0
  THEN [ok |-> FALSE, valid_profiles |-> vp, valid_profile_counter |-> n,
        block |-> block]
  ELSE FromFastest(vp, n, IdxMin(vp, n))

\* the arguments of a profile check and the durations t of the profile it
\* is called on: every combination of empty and non-empty segments, and a
\* negative duration in one segment
CheckArguments ==
  { [ check |-> c, t |-> t, control_signs |-> cs, limits |-> l, jf |-> jf ] :
      c \in {"check", "check_for_velocity"},
      cs \in {"UDDU", "UDUD"},
      l \in {"Acc0Acc1Vel", "Vel", "Acc0", "Acc1", "Acc0Acc1", "Acc0Vel",
             "Acc1Vel", "None"},
      jf \in {-2, 2},
      t \in [0..6 -> 0..1]
              \cup {[i \in 0..6 |-> IF i = k THEN -1 ELSE 0] : k \in 0..6} }

\* Profile::check up to the assignment of the jerks: whether it has reached
\* the assignment, and the jerks j of the profile
Check(profile, control_signs, limits, jf) ==
  IF \/ \E i \in 0..6 : profile.t[i] < 0
     \/ /\ limits \in {"Acc0Acc1Vel", "Acc0Vel", "Acc1Vel", "Vel"}
        /\ profile.t[3] < 1
     \/ limits \in {"Acc0", "Acc0Acc1"} /\ profile.t[1] < 1
     \/ limits \in {"Acc1", "Acc0Acc1"} /\ profile.t[5] < 1
  THEN [filled |-> FALSE, j |-> profile.j]
  ELSE [filled |-> TRUE,
        j |-> IF control_signs = "UDDU"
              THEN [i \in 0..6 |->
                      IF i \in {0, 6} /\ profile.t[i] > 0 THEN jf
                      ELSE IF i \in {2, 4} /\ profile.t[i] > 0 THEN -jf
                      ELSE 0]
              ELSE [i \in 0..6 |->
                      IF i \in {0, 4} /\ profile.t[i] > 0 THEN jf
                      ELSE IF i \in {2, 6} /\ profile.t[i] > 0 THEN -jf
                      ELSE 0]]

\* Profile::check_for_velocity up to the assignment of the jerks
CheckForVelocity(profile, control_signs, limits, jf) ==
  IF \/ \E i \in 0..6 : profile.t[i] < 0
     \/ limits = "Acc0" /\ profile.t[1] < 1
  THEN [filled |-> FALSE, j |-> profile.j]
  ELSE [filled |-> TRUE,
        j |-> IF control_signs = "UDDU"
              THEN [i \in 0..6 |->
                      IF i \in {0, 6} /\ profile.t[i] > 0 THEN jf
                      ELSE IF i \in {2, 4} /\ profile.t[i] > 0 THEN -jf
                      ELSE 0]
              ELSE [i \in 0..6 |->
                      IF i \in {0, 4, 6} /\ profile.t[i] > 0 THEN jf
                      ELSE IF i = 2 /\ profile.t[i] > 0 THEN -jf
                      ELSE 0]]

\* a call of calculate_block on a default block (otg holds the block, output
\* the valid profiles), or a call of a check on a default profile with the
\* durations t (otg holds the profile)
InitPure ==
  /\ handler = "throw"
  /\ result = "None"
  /\ \/ /\ pc = "block"
        /\ \E n \in 0..5 : input \in BlockArguments(n)
        /\ otg = DefaultBlock
        /\ output = [valid_profiles |-> input.valid_profiles,
                     valid_profile_counter |-> input.valid_profile_counter]
     \/ /\ pc = "check"
        /\ input \in CheckArguments
        /\ otg = [t |-> input.t, j |-> [i \in 0..6 |-> 0]]
        /\ output = <<>>

\* Block::calculate_block(&mut block, &mut valid_profiles,
\* &mut valid_profile_counter, numerical_robust)
CalculateBlockCall ==
  /\ pc = "block"
  /\ result = "None"
  /\ \E r \in {CalculateBlock(otg, input.valid_profiles,
                              input.valid_profile_counter,
                              input.numerical_robust)} :
       /\ otg' = r.block
       /\ output' = [valid_profiles |-> r.valid_profiles,
                     valid_profile_counter |-> r.valid_profile_counter]
       /\ result' = IF r.ok THEN "true" ELSE "false"
  /\ UNCHANGED <<input, handler, pc>>

\* profile.check(...) or profile.check_for_velocity(...)
ProfileCheckCall ==
  /\ pc = "check"
  /\ result = "None"
  /\ \E r \in {IF input.check = "check"
               THEN Check(otg, input.control_signs, input.limits, input.jf)
               ELSE CheckForVelocity(otg, input.control_signs, input.limits,
                                     input.jf)} :
       /\ otg' = [otg EXCEPT !.j = r.j]
       /\ result' = IF r.filled THEN "filled" ELSE "false"
  /\ UNCHANGED <<input, output, handler, pc>>

SpecPure == InitPure /\ [][CalculateBlockCall \/ ProfileCheckCall]_vars

\* C29: every third-order profile check that assigns the jerks assigns jf
\* times (+,0,-,0,-,0,+) for UDDU and jf times (+,0,-,0,+,0,-) for UDUD, and
\* 0 in a segment of no duration.
C29_JerkSignPattern ==
  (pc = "check" /\ result = "filled") =>
    \A i \in 0..6 :
      otg.j[i] = IF otg.t[i] = 0 THEN 0
                 ELSE IF input.control_signs = "UDDU"
                 THEN <<input.jf, 0, -input.jf, 0, -input.jf, 0, input.jf>>[i + 1]
                 ELSE <<input.jf, 0, -input.jf, 0, input.jf, 0, -input.jf>>[i + 1]

\* C28 (as stated): calculate_block with numerical_robust true: one profile
\* gives the block of that profile without an interval; two profiles at
\* least 8 EPSILON apart give the shorter one as p_min and the interval a up
\* to the longer one; three give the shortest as p_min and the interval a
\* between the other two with the profile of the longer one; five give the
\* shortest as p_min and the other four in the two intervals a and b; no
\* profile fails, and four succeed only reduced to three; on success t_min
\* is the smallest duration and t_min <= left <= right for every interval.
C28_BlockOfValidProfiles ==
  LET vp == input.valid_profiles
      n == input.valid_profile_counter
      D(i) == vp[i].t_sum + vp[i].brake.duration
      Others(s) == (0..(n - 1)) \ {s}
      Shortest(s) == \A i \in 0..(n - 1) : D(s) <= D(i)
      Spans(x, i, k) ==
        /\ IsSome(x)
        /\ \/ Unwrap(x) = Interval(D(i), D(k), vp[k]) /\ D(i) <= D(k)
           \/ Unwrap(x) = Interval(D(k), D(i), vp[i]) /\ D(k) <= D(i)
  IN  ( /\ pc = "block"
        /\ result # "None"
        /\ UnwrapOr(input.numerical_robust, TRUE) ) =>
        /\ n = 0 => result = "false"
        /\ n = 1 => result = "true" /\ otg = SetMinProfile(vp[0])
        /\ (n = 2 /\ ~Near(vp[0].t_sum, vp[1].t_sum, 8)) =>
             /\ result = "true"
             /\ \E s \in 0..1 :
                  /\ Shortest(s)
                  /\ otg.p_min = vp[s]
                  /\ otg.a = Some(Interval(D(s), D(1 - s), vp[1 - s]))
                  /\ otg.b = None
        /\ n = 3 =>
             /\ result = "true"
             /\ \E s \in 0..2 :
                  /\ Shortest(s)
                  /\ otg.p_min = vp[s]
                  /\ \E i, k \in Others(s) : i # k /\ Spans(otg.a, i, k)
                  /\ otg.b = None
        /\ n = 4 =>
             \/ result = "false"
             \/ /\ output.valid_profile_counter = 3
                /\ IsSome(otg.a) /\ IsNone(otg.b)
        /\ n = 5 =>
             /\ result = "true"
             /\ \E s \in 0..4 :
                  /\ Shortest(s)
                  /\ otg.p_min = vp[s]
                  /\ \E i, k, l, m \in Others(s) :
                       /\ Cardinality({i, k, l, m}) = 4
                       /\ Spans(otg.a, i, k)
                       /\ Spans(otg.b, l, m)
        /\ result = "true" =>
             /\ \A i \in 0..(n - 1) : otg.t_min <= D(i)
             /\ \E i \in 0..(n - 1) : otg.t_min = D(i)
             /\ \A x \in {otg.a, otg.b} :
                  IsSome(x) => /\ otg.t_min <= Unwrap(x).left
                               /\ Unwrap(x).left <= Unwrap(x).right

\* C28 (amended): as above, but two profiles closer than 8 EPSILON give the
\* block of the first one, four profiles succeed exactly as the three that
\* calculate_block keeps, and t_min is the duration of p_min, the smallest
\* duration of the profiles that were not dropped as numerically equal.
C28_BlockOfKeptProfiles ==
  LET vp == input.valid_profiles
      n == input.valid_profile_counter
      kept == output.valid_profiles
      D(p) == p.t_sum + p.brake.duration
      Spans(x, p, q) ==
        /\ IsSome(x)
        /\ \/ Unwrap(x) = Interval(D(p), D(q), q) /\ D(p) <= D(q)
           \/ Unwrap(x) = Interval(D(q), D(p), p) /\ D(q) <= D(p)
      Fastest(w, m, s) ==
        /\ \A i \in 0..(m - 1) : D(w[s]) <= D(w[i])
        /\ otg.p_min = w[s]
        /\ otg.t_min = D(w[s])
      Three(w) ==
        \E s \in 0..2 :
          /\ Fastest(w, 3, s)
          /\ \E i, k \in (0..2) \ {s} : i # k /\ Spans(otg.a, w[i], w[k])
          /\ otg.b = None
  IN  ( /\ pc = "block"
        /\ result # "None"
        /\ UnwrapOr(input.numerical_robust, TRUE) ) =>
        /\ n = 0 => result = "false"
        /\ n = 1 => result = "true" /\ otg = SetMinProfile(vp[0])
        /\ (n = 2 /\ Near(vp[0].t_sum, vp[1].t_sum, 8)) =>
             result = "true" /\ otg = SetMinProfile(vp[0])
        /\ (n = 2 /\ ~Near(vp[0].t_sum, vp[1].t_sum, 8)) =>
             /\ result = "true"
             /\ \E s \in 0..1 :
                  /\ Fastest(vp, 2, s)
                  /\ otg.a = Some(Interval(D(vp[s]), D(vp[1 - s]), vp[1 - s]))
                  /\ otg.b = None
        /\ n = 3 => result = "true" /\ Three(vp)
        /\ n = 4 =>
             \/ result = "false" /\ otg = DefaultBlock
             \/ /\ result = "true"
                /\ output.valid_profile_counter = 3
                /\ \E r \in {1, 3} : kept = RemoveProfile(vp, 4, r)
                /\ Three(kept)
        /\ n = 5 =>
             /\ result = "true"
             /\ \E s \in 0..4 :
                  /\ Fastest(vp, 5, s)
                  /\ \E i, k, l, m \in (0..4) \ {s} :
                       /\ Cardinality({i, k, l, m}) = 4
                       /\ Spans(otg.a, vp[i], vp[k])
                       /\ Spans(otg.b, vp[l], vp[m])
        /\ result = "true" =>
             /\ \A i \in 0..(n - 1) : otg.t_min <= D(vp[i]) + 256
             /\ \A x \in {otg.a, otg.b} :
                  IsSome(x) => /\ otg.t_min <= Unwrap(x).left
                               /\ Unwrap(x).left <= Unwrap(x).right

\* C28 witness: of four valid profiles the second, numerically equal to the
\* first and shorter than every other one, was dropped, and the block was
\* made of the other three
C28_Witness_ReducedToThree ==
  /\ pc = "block"
  /\ result = "true"
  /\ input.valid_profile_counter = 4
  /\ output.valid_profile_counter = 3
  /\ IsSome(otg.a)
  /\ input.valid_profiles[1].t_sum + input.valid_profiles[1].brake.duration
       < otg.t_min
  /\ Unwrap(otg.a).left < Unwrap(otg.a).right

\* C30: after a successful calculate the duration of the trajectory is not
\* less than the minimum duration t_min of step 1, stored in
\* independent_min_durations, of any enabled DoF.
C30_DurationCoversMinimumDurations ==
  result = "Working" =>
    \A d \in DofsOf(otg.calculator) :
      input.enabled[d] =>
        /\ output.trajectory.independent_min_durations[d]
             = otg.calculator.blocks[d].t_min
        /\ output.trajectory.duration
             >= output.trajectory.independent_min_durations[d]

\* C30 witness: two enabled DoFs, the second one with synchronization None
\* and the longer minimum duration, and a discrete duration
C30_Witness_NoneDofLimits ==
  /\ result = "Working"
  /\ otg.degrees_of_freedom = 2
  /\ input.enabled[0] /\ input.enabled[1]
  /\ input.duration_discretization = "Discrete"
  /\ PerDofSynchronization(input, 0) = "Time"
  /\ PerDofSynchronization(input, 1) = "None"
  /\ output.trajectory.independent_min_durations[0]
       < output.trajectory.independent_min_durations[1]
  /\ output.trajectory.duration
       = output.trajectory.independent_min_durations[1]

====
